---- MODULE Spec2Model ----
(***************************************************************************)
(* A model of the opds-aggregator gateway: the URL rewriter                *)
(* (server/rewrite.go), the request resolver (server/handlers.go), the     *)
(* crawler (crawler/crawler.go) and the feed cache (cache/cache.go).       *)
(*                                                                         *)
(* Strings are sequences of atoms.  An atom stands for a fixed run of      *)
(* characters ("https://", "ex.org", "/", "cat", "%2F", ...).  No atom's   *)
(* text is a prefix of another atom's text, so a string has exactly one    *)
(* spelling as a sequence of atoms and prefix, suffix, index and           *)
(* containment on the characters coincide with the same operations on the  *)
(* sequences.                                                              *)
(***************************************************************************)
EXTENDS Integers, Sequences, FiniteSets, TLC

(***************************************************************************)
(* package strings                                                         *)
(***************************************************************************)
HasPrefix(s, p) == Len(p) <= Len(s) /\ SubSeq(s, 1, Len(p)) = p

HasSuffix(s, p) == Len(p) <= Len(s) /\ SubSeq(s, Len(s) - Len(p) + 1, Len(s)) = p

TrimPrefix(s, p) == IF HasPrefix(s, p) THEN SubSeq(s, Len(p) + 1, Len(s)) ELSE s

TrimSuffix(s, p) == IF HasSuffix(s, p) THEN SubSeq(s, 1, Len(s) - Len(p)) ELSE s

\* strings.Index(s, sub): the first position of sub in s, 0 when absent
\* (Go's -1).
Index(s, sub) ==
    LET hits == {i \in 1..(Len(s) - Len(sub) + 1) : SubSeq(s, i, i + Len(sub) - 1) = sub}
    IN  IF hits = {} THEN 0 ELSE CHOOSE i \in hits : \A j \in hits : i <= j

LastIndex(s, sub) ==
    LET hits == {i \in 1..(Len(s) - Len(sub) + 1) : SubSeq(s, i, i + Len(sub) - 1) = sub}
    IN  IF hits = {} THEN 0 ELSE CHOOSE i \in hits : \A j \in hits : i >= j

Contains(s, sub) == Index(s, sub) # 0

\* strings.Split(s, sep) for a one-atom separator.
RECURSIVE Split(_, _)
Split(s, sep) ==
    LET i == Index(s, <<sep>>)
    IN  IF i = 0 THEN <<s>>
        ELSE <<SubSeq(s, 1, i - 1)>> \o Split(SubSeq(s, i + 1, Len(s)), sep)

(***************************************************************************)
(* package net/url, as far as the gateway uses it.  Escaping works atom by *)
(* atom: the atoms below are the only ones whose text changes.             *)
(***************************************************************************)
SchemeAtoms == {"https://"}

\* A scheme without an authority: what follows it is opaque.
OpaqueSchemeAtoms == {"mailto:"}

HostAtoms == {"ex.org", "other.org"}

\* Text that url.QueryUnescape and the path unescaping of url.Parse reject: a
\* percent sign not followed by two hex digits.
BadEscapes == {"%zz"}

\* url.QueryEscape, one atom.
EscapeAtom(a) ==
    CASE a = "https://" -> "https%3A%2F%2F"
      [] a = "mailto:"  -> "mailto%3A"
      [] a = "/"        -> "%2F"
      [] a = "?"        -> "%3F"
      [] a = "="        -> "%3D"
      [] a = "&"        -> "%26"
      [] a = "%2F"      -> "%252F"
      [] a = "%zz"      -> "%25zz"
      [] OTHER          -> a

\* url.QueryUnescape / the path unescaping of url.Parse, one atom.
UnescapeAtom(a) ==
    CASE a = "https%3A%2F%2F" -> "https://"
      [] a = "mailto%3A"      -> "mailto:"
      [] a = "%2F"            -> "/"
      [] a = "%3F"            -> "?"
      [] a = "%3D"            -> "="
      [] a = "%26"            -> "&"
      [] a = "%252F"          -> "%2F"
      [] a = "%25zz"          -> "%zz"
      [] OTHER                -> a

QueryEscape(s) == [i \in 1..Len(s) |-> EscapeAtom(s[i])]

QueryUnescape(s) == [i \in 1..Len(s) |-> UnescapeAtom(s[i])]

\* url.Parse: scheme, host, the decoded Path, the path as written (RawPath)
\* and the query as written; for a scheme without authority, the opaque rest.
ParsePathQuery(scheme, host, rest, qi) ==
    [Scheme   |-> scheme,
     Opaque   |-> <<>>,
     Host     |-> host,
     Path     |-> QueryUnescape(IF qi = 0 THEN rest ELSE SubSeq(rest, 1, qi - 1)),
     RawPath  |-> IF qi = 0 THEN rest ELSE SubSeq(rest, 1, qi - 1),
     RawQuery |-> IF qi = 0 THEN <<>> ELSE SubSeq(rest, qi + 1, Len(rest))]

ParseAuthority(scheme, afterScheme) ==
    IF scheme # "" /\ Len(afterScheme) >= 1 /\ afterScheme[1] \in HostAtoms
    THEN ParsePathQuery(scheme, afterScheme[1], Tail(afterScheme),
                        Index(Tail(afterScheme), <<"?">>))
    ELSE ParsePathQuery(scheme, "", afterScheme, Index(afterScheme, <<"?">>))

Parse(s) ==
    IF Len(s) >= 1 /\ s[1] \in OpaqueSchemeAtoms
    THEN [Scheme |-> s[1], Opaque |-> Tail(s), Host |-> "", Path |-> <<>>,
          RawPath |-> <<>>, RawQuery |-> <<>>]
    ELSE IF Len(s) >= 1 /\ s[1] \in SchemeAtoms THEN ParseAuthority(s[1], Tail(s))
    ELSE ParseAuthority("", s)

\* The error of url.Parse: a path that does not unescape.  What follows a
\* scheme without authority is kept as written.
ParseErr(s) ==
    /\ ~(Len(s) >= 1 /\ s[1] \in OpaqueSchemeAtoms)
    /\ LET qi == Index(s, <<"?">>)
       IN  \E i \in 1..(IF qi = 0 THEN Len(s) ELSE qi - 1) : s[i] \in BadEscapes

\* URL.EscapedPath: the path as written while it still decodes to Path, else
\* Path escaped anew (no decoded atom of the model needs escaping in a path).
EscapedPath(u) ==
    IF u.RawPath # <<>> /\ QueryUnescape(u.RawPath) = u.Path THEN u.RawPath ELSE u.Path

\* URL.setPath
SetPath(u, p) == [u EXCEPT !.Path = QueryUnescape(p), !.RawPath = p]

\* URL.String
URLString(u) ==
    (IF u.Scheme = "" THEN <<>> ELSE <<u.Scheme>>)
    \o u.Opaque
    \o (IF u.Host = "" THEN <<>> ELSE <<u.Host>>)
    \o EscapedPath(u)
    \o (IF u.RawQuery = <<>> THEN <<>> ELSE <<"?">> \o u.RawQuery)

\* resolvePath of net/url on paths without dot segments: a relative
\* reference replaces what follows the base's last slash.
ResolvePath(base, ref) ==
    IF ref = <<>> THEN base
    ELSE IF ref[1] # "/" THEN SubSeq(base, 1, LastIndex(base, <<"/">>)) \o ref
    ELSE ref

\* URL.ResolveReference
ResolveReference(u, ref) ==
    IF ref.Scheme # "" \/ ref.Host # ""
    THEN SetPath(ref, ResolvePath(EscapedPath(ref), <<>>))
    ELSE LET q == IF ref.Path = <<>> /\ ref.RawQuery = <<>> THEN u.RawQuery ELSE ref.RawQuery
         IN  SetPath([Scheme |-> u.Scheme, Opaque |-> <<>>, Host |-> u.Host, Path |-> <<>>,
                      RawPath |-> <<>>, RawQuery |-> q],
                     ResolvePath(EscapedPath(u), EscapedPath(ref)))

(***************************************************************************)
(* server/rewrite.go                                                       *)
(***************************************************************************)
\* resolveURL: an href that already is http(s) is used as it is; otherwise it
\* is resolved against the base, whose path is first made directory-like.
AsDir(baseURL) ==
    IF HasSuffix(baseURL.Path, <<"/">>) THEN baseURL
    ELSE [baseURL EXCEPT !.Path = baseURL.Path \o <<"/">>]

resolveURL(base, ref) ==
    IF Len(ref) >= 1 /\ ref[1] \in SchemeAtoms THEN ref
    ELSE URLString(ResolveReference(AsDir(Parse(base)), Parse(ref)))

\* An escape hatch that does not escape the URL.
ExtPathRaw(full) == <<"ext", "?", "url", "=">> \o full

\* The escape hatch of makeRelativePath.
ExtPath(full) == <<"ext", "?", "url", "=">> \o QueryEscape(full)

\* The query of a URL as makeRelativePath appends it.
QuerySuffix(u) == IF u.RawQuery # <<>> THEN <<"?">> \o u.RawQuery ELSE <<>>

\* makeRelativePath after the two url.Parse calls.
\* A makeRelativePath that strips the root path wherever the target path
\* starts with it, as relativePath of the crawler does.
RelativeToAnyPrefix(baseURL, fullURL, full) ==
    IF baseURL.Host # fullURL.Host THEN ExtPath(full)
    ELSE IF HasPrefix(fullURL.Path, TrimSuffix(baseURL.Path, <<"/">>))
    THEN TrimPrefix(TrimPrefix(fullURL.Path, TrimSuffix(baseURL.Path, <<"/">>)), <<"/">>)
         \o QuerySuffix(fullURL)
    ELSE ExtPath(full)

RelativeTo(baseURL, fullURL, full) ==
    IF baseURL.Host # fullURL.Host THEN ExtPath(full)
    ELSE IF HasPrefix(fullURL.Path, TrimSuffix(baseURL.Path, <<"/">>) \o <<"/">>)
    THEN TrimPrefix(fullURL.Path, TrimSuffix(baseURL.Path, <<"/">>) \o <<"/">>)
         \o QuerySuffix(fullURL)
    ELSE IF TrimSuffix(fullURL.Path, <<"/">>) = TrimSuffix(baseURL.Path, <<"/">>)
    THEN QuerySuffix(fullURL)
    ELSE ExtPath(full)

makeRelativePath(base, full) == RelativeTo(Parse(base), Parse(full), full)

joinURL(base, subPath, rawQuery) ==
    LET idx  == Index(base, <<"?">>)
        bare == IF idx # 0 THEN SubSeq(base, 1, idx - 1) ELSE base
        u    == TrimSuffix(bare, <<"/">>) \o <<"/">> \o TrimPrefix(subPath, <<"/">>)
    IN  IF rawQuery # <<>> THEN u \o <<"?">> \o rawQuery ELSE u

(***************************************************************************)
(* opds/types.go: link relations, media types and their classification.    *)
(***************************************************************************)
RelSelf == "self"

RelStart == "start"

RelSubsection == "subsection"

RelFirst == "first"

RelPrevious == "previous"

RelNext == "next"

RelLast == "last"

RelSearch == "search"

RelAcquisition == "http://opds-spec.org/acquisition"

RelOpenAccess == "http://opds-spec.org/acquisition/open-access"

RelImage == "http://opds-spec.org/image"

RelThumbnail == "http://opds-spec.org/image/thumbnail"

RelAlternate == "alternate"

MediaTypeOPDSNav == "application/atom+xml;profile=opds-catalog;kind=navigation"

MediaTypeAtom == "application/atom+xml"

MediaTypeEpub == "application/epub+zip"

isAcquisitionRel(rel) ==
    rel \in {RelAcquisition, RelOpenAccess,
             "http://opds-spec.org/acquisition/borrow", "http://opds-spec.org/acquisition/buy",
             "http://opds-spec.org/acquisition/sample", "http://opds-spec.org/acquisition/subscribe"}

IsImageRel(rel) == rel = RelImage \/ rel = RelThumbnail

IsNavigationRel(rel) ==
    rel \in {RelSubsection, RelStart, RelSelf, RelNext, RelAlternate, "related",
             "http://opds-spec.org/sort/new", "http://opds-spec.org/sort/popular",
             "http://opds-spec.org/featured", "http://opds-spec.org/recommended",
             "http://opds-spec.org/shelf", "http://opds-spec.org/subscriptions",
             "http://opds-spec.org/facet"}

\* isOPDSFeedType: the media type contains "opds-catalog" or "atom+xml"; of
\* the media types of the model these two do.
isOPDSFeedType(mediaType) == mediaType \in {MediaTypeOPDSNav, MediaTypeAtom}

(***************************************************************************)
(* server/rewrite.go: the rewriter.                                        *)
(***************************************************************************)
SourcePrefix == <<"/", "opds", "/", "source", "/">>

DownloadPrefix == <<"/", "opds", "/", "download", "/">>

SearchPrefix == <<"/", "opds", "/", "search", "/">>

\* A guard that knows the source prefix only.
isAggregatorPathSourceOnly(href) == HasPrefix(href, <<"/", "opds", "/", "source", "/">>)

isAggregatorPath(href) ==
    \/ HasPrefix(href, SourcePrefix)
    \/ HasPrefix(href, DownloadPrefix) /\ Contains(href, <<"?", "url", "=">>)
    \/ /\ HasPrefix(href, SearchPrefix)
       /\ Contains(href, <<"?", "upstream", "=">>) \/ Contains(href, <<"?", "q", "=">>)
    \/ href = <<"/", "opds", "/", "search">>
    \/ HasPrefix(href, <<"/", "opds", "/", "search", "?">>)

DownloadHref(proxyPrefix, slug, href) ==
    proxyPrefix \o DownloadPrefix \o <<slug, "?", "url", "=">> \o QueryEscape(href)

\* A rewriter that looks at the media type before the search relation.
rewriteResolvedTypeFirst(l, slug, href, sourceRootURL, proxyPrefix) ==
    IF isAggregatorPath(l.Href) THEN l.Href
    ELSE IF isAcquisitionRel(l.Rel) \/ IsImageRel(l.Rel)
    THEN DownloadHref(proxyPrefix, slug, href)
    ELSE IF isOPDSFeedType(l.Type) \/ IsNavigationRel(l.Rel)
    THEN proxyPrefix \o SourcePrefix \o <<slug, "/">> \o makeRelativePath(sourceRootURL, href)
    ELSE IF l.Rel = RelSearch
    THEN proxyPrefix \o SearchPrefix \o <<slug, "?", "upstream", "=">> \o QueryEscape(href)
    ELSE IF Len(href) >= 1 /\ href[1] \in SchemeAtoms THEN DownloadHref(proxyPrefix, slug, href)
    ELSE href

\* rewriteHref after resolveURL: href is the resolved target.
rewriteResolved(l, slug, href, sourceRootURL, proxyPrefix) ==
    IF isAggregatorPath(l.Href) THEN l.Href
    ELSE IF isAcquisitionRel(l.Rel) \/ IsImageRel(l.Rel)
    THEN DownloadHref(proxyPrefix, slug, href)
    ELSE IF l.Rel = RelSearch
    THEN proxyPrefix \o SearchPrefix \o <<slug, "?", "upstream", "=">> \o QueryEscape(href)
    ELSE IF isOPDSFeedType(l.Type) \/ IsNavigationRel(l.Rel)
    THEN proxyPrefix \o SourcePrefix \o <<slug, "/">> \o makeRelativePath(sourceRootURL, href)
    ELSE IF Len(href) >= 1 /\ href[1] \in SchemeAtoms THEN DownloadHref(proxyPrefix, slug, href)
    ELSE href

rewriteHref(l, slug, baseUpstreamURL, sourceRootURL, proxyPrefix) ==
    rewriteResolved(l, slug, resolveURL(baseUpstreamURL, l.Href), sourceRootURL, proxyPrefix)

rewriteLinks(links, slug, baseUpstreamURL, sourceRootURL, proxyPrefix) ==
    [i \in 1..Len(links) |->
        [links[i] EXCEPT !.Href = rewriteHref(links[i], slug, baseUpstreamURL,
                                               sourceRootURL, proxyPrefix)]]

rewriteFeedLinks(feed, slug, baseUpstreamURL, sourceRootURL, proxyPrefix) ==
    [feed EXCEPT
        !.Links = rewriteLinks(feed.Links, slug, baseUpstreamURL, sourceRootURL, proxyPrefix),
        !.Entries = [i \in 1..Len(feed.Entries) |->
            [feed.Entries[i] EXCEPT
                !.Links = rewriteLinks(feed.Entries[i].Links, slug, baseUpstreamURL,
                                       sourceRootURL, proxyPrefix)]]]

(***************************************************************************)
(* opds/types.go: documents.  A feed is [Links, Entries], an entry is      *)
(* [ID, Links], a link is [Rel, Href, Type].                               *)
(***************************************************************************)
NoLink == [Rel |-> "", Href |-> <<"-">>, Type |-> ""]

\* The first link of the given relation, NoLink when there is none
\* (Feed.NextLink, Feed.SearchLink).
FirstLink(feed, rel) ==
    LET hits == {i \in 1..Len(feed.Links) : feed.Links[i].Rel = rel}
    IN  IF hits = {} THEN NoLink
        ELSE feed.Links[CHOOSE i \in hits : \A j \in hits : i <= j]

NextLink(feed) == FirstLink(feed, RelNext)

SearchLink(feed) == FirstLink(feed, RelSearch)

HasAcquisitionLinks(e) == \E i \in 1..Len(e.Links) : isAcquisitionRel(e.Links[i].Rel)

\* A classification that takes a document without entries for a navigation
\* document.
IsNavigationFeedVacuous(feed) ==
    /\ TRUE
    /\ \A i \in 1..Len(feed.Entries) : ~HasAcquisitionLinks(feed.Entries[i])

IsNavigationFeed(feed) ==
    /\ Len(feed.Entries) # 0
    /\ \A i \in 1..Len(feed.Entries) : ~HasAcquisitionLinks(feed.Entries[i])

(***************************************************************************)
(* crawler/crawler.go.  The upstream is a function w from URLs to the      *)
(* documents served there; a fetch of a URL outside its domain, or of a    *)
(* URL in the set fail, returns an error.                                  *)
(***************************************************************************)
EmptyMap == [k \in {} |-> k]

MapPut(f, k, v) == [x \in (DOMAIN f) \cup {k} |-> IF x = k THEN v ELSE f[x]]

NoFeed == [Links |-> <<>>, Entries |-> <<>>]

fetchFeed(w, fail, feedURL) ==
    IF feedURL \in DOMAIN w /\ feedURL \notin fail
    THEN [ok |-> TRUE, feed |-> w[feedURL]]
    ELSE [ok |-> FALSE, feed |-> NoFeed]

isNavigationLink(l) == l.Rel = RelSubsection /\ l.Type \in {MediaTypeOPDSNav, MediaTypeAtom}

\* resolveURL of package crawler.
crawlerResolveURL(base, ref) ==
    IF Len(ref) >= 1 /\ ref[1] \in SchemeAtoms THEN ref
    ELSE URLString(ResolveReference(AsDir(Parse(base)), Parse(ref)))

\* relativePath after the two url.Parse calls.
RelPathOf(baseURL, fullURL) ==
    TrimPrefix(TrimPrefix(fullURL.Path, baseURL.Path), <<"/">>) \o QuerySuffix(fullURL)

relativePath(base, full) == RelPathOf(Parse(base), Parse(full))

\* The most page fetches one FetchWithLimit is followed for; a call that
\* needs more is reported as Diverged.
MaxFollow == 5

\* The results of FetchWithLimit: [Err, Feed, HasMore, NextURL], with the
\* URLs requested (Fetched) and whether the loop was cut off (Diverged).
PagesDone(feed, log) ==
    [Err |-> FALSE, Feed |-> feed, HasMore |-> FALSE, NextURL |-> <<>>,
     Fetched |-> log, Diverged |-> FALSE]

\* The loop of FetchWithLimit: feed is the first page with the entries merged
\* so far, current the page fetched last, log the URLs requested so far.
RECURSIVE FollowPages(_, _, _, _, _, _, _, _)
RECURSIVE FollowTo(_, _, _, _, _, _, _, _)
RECURSIVE MergePage(_, _, _, _, _, _, _, _)

FollowPages(w, fail, feedURL, feed, current, pageCount, maxPages, log) ==
    IF NextLink(current) = NoLink THEN PagesDone(feed, log)
    ELSE FollowTo(w, fail, feedURL, feed, pageCount, maxPages, log,
                  crawlerResolveURL(feedURL, NextLink(current).Href))

\* The loop from the page limit on: nextURL is the resolved next link.
FollowTo(w, fail, feedURL, feed, pageCount, maxPages, log, nextURL) ==
    IF maxPages > 0 /\ pageCount >= maxPages
    THEN [PagesDone(feed, log) EXCEPT !.HasMore = TRUE, !.NextURL = nextURL]
    ELSE IF Len(log) >= MaxFollow THEN [PagesDone(feed, log) EXCEPT !.Diverged = TRUE]
    ELSE MergePage(w, fail, feedURL, feed, pageCount, maxPages, Append(log, nextURL),
                   fetchFeed(w, fail, nextURL))

\* The loop after the fetch of the next page.
MergePage(w, fail, feedURL, feed, pageCount, maxPages, log, next) ==
    IF ~next.ok THEN PagesDone(feed, log)
    ELSE FollowPages(w, fail, feedURL,
                     [feed EXCEPT !.Entries = feed.Entries \o next.feed.Entries],
                     next.feed, pageCount + 1, maxPages, log)

\* FetchWithLimit after the fetch of the first page.
FollowFirst(w, fail, feedURL, maxPages, first) ==
    IF ~first.ok
    THEN [Err |-> TRUE, Feed |-> NoFeed, HasMore |-> FALSE, NextURL |-> <<>>,
          Fetched |-> <<feedURL>>, Diverged |-> FALSE]
    ELSE FollowPages(w, fail, feedURL, first.feed, first.feed, 1, maxPages, <<feedURL>>)

FetchWithLimit(w, fail, feedURL, maxPages) ==
    FollowFirst(w, fail, feedURL, maxPages, fetchFeed(w, fail, feedURL))

FetchPaginated(w, fail, feedURL) == FetchWithLimit(w, fail, feedURL, 0)

\* All links of all entries, in document order (the two nested loops of
\* crawlChildren).
RECURSIVE EntryLinks(_)
EntryLinks(entries) ==
    IF entries = <<>> THEN <<>> ELSE Head(entries).Links \o EntryLinks(Tail(entries))

\* A tree node without children.
Leaf(feed, feedURL) ==
    [Feed |-> feed, URL |-> feedURL, Children |-> EmptyMap, SearchURL |-> <<>>]

\* crawlChildren on the state st = [Tree, Log]: Tree is the tree node whose
\* children are being crawled, Log the URLs requested so far.  crawlLinks is
\* its loop over the links, crawlLink the loop body from resolveURL on,
\* crawlChild from the duplicate test on, crawlFetched from the fetch on,
\* crawlKeep the insert and the recursion.
RECURSIVE crawlChildren(_, _, _, _, _, _)
RECURSIVE crawlLinks(_, _, _, _, _, _, _)
RECURSIVE crawlLink(_, _, _, _, _, _, _, _)
RECURSIVE crawlChild(_, _, _, _, _, _, _, _, _)
RECURSIVE crawlFetched(_, _, _, _, _, _, _, _, _, _)
RECURSIVE crawlKeep(_, _, _, _, _, _, _, _, _)

crawlChildren(w, fail, st, feedCfg, baseURL, depth) ==
    IF depth > feedCfg.PollDepth THEN st
    ELSE crawlLinks(w, fail, st, feedCfg, baseURL, depth, EntryLinks(st.Tree.Feed.Entries))

crawlLinks(w, fail, st, feedCfg, baseURL, depth, links) ==
    IF links = <<>> THEN st
    ELSE IF ~isNavigationLink(Head(links))
    THEN crawlLinks(w, fail, st, feedCfg, baseURL, depth, Tail(links))
    ELSE crawlLink(w, fail, st, feedCfg, baseURL, depth, links,
                   crawlerResolveURL(baseURL, Head(links).Href))

crawlLink(w, fail, st, feedCfg, baseURL, depth, links, absURL) ==
    crawlChild(w, fail, st, feedCfg, baseURL, depth, links, absURL,
               relativePath(feedCfg.URL, absURL))

crawlChild(w, fail, st, feedCfg, baseURL, depth, links, absURL, relPath) ==
    IF relPath \in DOMAIN st.Tree.Children
    THEN crawlLinks(w, fail, st, feedCfg, baseURL, depth, Tail(links))
    ELSE crawlFetched(w, fail, [st EXCEPT !.Log = Append(@, absURL)], feedCfg, baseURL,
                      depth, links, absURL, relPath, fetchFeed(w, fail, absURL))

\* The child stored under relPath, with what the recursion put below it.
crawlKeep(w, fail, st, feedCfg, baseURL, depth, links, relPath, sub) ==
    crawlLinks(w, fail,
               [Tree |-> [st.Tree EXCEPT !.Children = MapPut(@, relPath, sub.Tree)],
                Log  |-> sub.Log],
               feedCfg, baseURL, depth, Tail(links))

\* A crawl loop that gives up at the first child that cannot be fetched.
crawlFetchedAbort(w, fail, st, feedCfg, baseURL, depth, links, absURL, relPath, child) ==
    IF ~child.ok THEN st
    ELSE crawlKeep(w, fail, st, feedCfg, baseURL, depth, links, relPath,
                   IF IsNavigationFeed(child.feed) /\ depth < feedCfg.PollDepth
                   THEN crawlChildren(w, fail, [Tree |-> Leaf(child.feed, absURL),
                                                Log |-> st.Log],
                                      feedCfg, absURL, depth + 1)
                   ELSE [Tree |-> Leaf(child.feed, absURL), Log |-> st.Log])

\* A crawl loop that descends below every child above the depth limit,
\* whatever kind of document the child is.
crawlFetchedAnyKind(w, fail, st, feedCfg, baseURL, depth, links, absURL, relPath, child) ==
    IF ~child.ok THEN crawlLinks(w, fail, st, feedCfg, baseURL, depth, Tail(links))
    ELSE crawlKeep(w, fail, st, feedCfg, baseURL, depth, links, relPath,
                   IF depth < feedCfg.PollDepth
                   THEN crawlChildren(w, fail, [Tree |-> Leaf(child.feed, absURL),
                                                Log |-> st.Log],
                                      feedCfg, absURL, depth + 1)
                   ELSE [Tree |-> Leaf(child.feed, absURL), Log |-> st.Log])

crawlFetched(w, fail, st, feedCfg, baseURL, depth, links, absURL, relPath, child) ==
    IF ~child.ok THEN crawlLinks(w, fail, st, feedCfg, baseURL, depth, Tail(links))
    ELSE crawlKeep(w, fail, st, feedCfg, baseURL, depth, links, relPath,
                   IF IsNavigationFeed(child.feed) /\ depth < feedCfg.PollDepth
                   THEN crawlChildren(w, fail, [Tree |-> Leaf(child.feed, absURL),
                                                Log |-> st.Log],
                                      feedCfg, absURL, depth + 1)
                   ELSE [Tree |-> Leaf(child.feed, absURL), Log |-> st.Log])

NoTree == [Feed |-> NoFeed, URL |-> <<>>, Children |-> EmptyMap, SearchURL |-> <<>>]

\* The tree of Crawl before crawlChildren: the root document and its search
\* URL.
RootState(feedCfg, feed, sl) ==
    [Tree |-> [Feed |-> feed, URL |-> feedCfg.URL, Children |-> EmptyMap,
               SearchURL |-> IF sl # NoLink THEN crawlerResolveURL(feedCfg.URL, sl.Href)
                             ELSE <<>>],
     Log  |-> <<feedCfg.URL>>]

CrawlResult(st) == [Err |-> FALSE, Tree |-> st.Tree, Log |-> st.Log]

\* A Crawl that counts the root's children as level 0.
CrawlRootFromLevelZero(w, fail, feedCfg, root) ==
    IF ~root.ok THEN [Err |-> TRUE, Tree |-> NoTree, Log |-> <<feedCfg.URL>>]
    ELSE IF feedCfg.PollDepth > 0
    THEN CrawlResult(crawlChildren(w, fail, RootState(feedCfg, root.feed, SearchLink(root.feed)),
                                   feedCfg, feedCfg.URL, 0))
    ELSE CrawlResult(RootState(feedCfg, root.feed, SearchLink(root.feed)))

\* Crawl after the fetch of the root.
CrawlRoot(w, fail, feedCfg, root) ==
    IF ~root.ok THEN [Err |-> TRUE, Tree |-> NoTree, Log |-> <<feedCfg.URL>>]
    ELSE IF feedCfg.PollDepth > 0
    THEN CrawlResult(crawlChildren(w, fail, RootState(feedCfg, root.feed, SearchLink(root.feed)),
                                   feedCfg, feedCfg.URL, 1))
    ELSE CrawlResult(RootState(feedCfg, root.feed, SearchLink(root.feed)))

\* Crawl: [Err, Tree, Log].
Crawl(w, fail, feedCfg) == CrawlRoot(w, fail, feedCfg, fetchFeed(w, fail, feedCfg.URL))

(***************************************************************************)
(* The inputs of the URL functions: source root URLs as a configuration    *)
(* may give them, and hrefs as upstream documents carry them.              *)
(***************************************************************************)
RootCat == <<"https://", "ex.org", "/", "cat">>

Roots ==
    {RootCat,
     <<"https://", "ex.org", "/", "cat", "/">>,
     <<"https://", "ex.org">>,
     <<"https://", "ex.org", "/", "cat", "?", "k", "=", "1">>}

\* Hrefs a gateway document carries: the rewriter's own output forms and the
\* pagination and search links the handlers add.
GatewayHrefs ==
    {<<"/", "opds", "/", "source", "/", "s1", "/", "books">>,
     <<"/", "opds", "/", "source", "/", "s1", "/", "books", "?", "limit", "=", "2">>,
     <<"/", "opds", "/", "source", "/", "s1", "/", "ext", "?", "url", "=",
       "https%3A%2F%2F", "other.org", "%2F", "x">>,
     <<"/", "opds", "/", "download", "/", "s1", "?", "url", "=",
       "https%3A%2F%2F", "ex.org", "%2F", "cat", "%2F", "x">>,
     <<"/", "opds", "/", "search", "/", "s1", "?", "upstream", "=",
       "https%3A%2F%2F", "ex.org", "%2F", "search">>,
     <<"/", "opds", "/", "search", "?", "q", "=", "x">>}

\* Hrefs of upstream documents: relative (plain, trailing slash, query,
\* percent-encoded slash, empty, query only), host-absolute paths under and
\* outside the root path (an upstream's own /opds/download/ path among
\* them), absolute URLs on the root's host and on another host, and a URL
\* that is not http(s).
UpstreamHrefs ==
    {<<"books">>,
     <<"books", "/">>,
     <<"books", "/", "x">>,
     <<"books", "?", "z", "=", "1", "&", "k", "=", "2">>,
     <<"x", "%2F", "books">>,
     <<>>,
     <<"?", "k", "=", "1">>,
     <<"/", "cat", "/", "books">>,
     <<"/", "cat", "alog", "/", "x">>,
     <<"/", "opds", "/", "download", "/", "x">>,
     <<"https://", "ex.org", "/", "cat", "/", "books", "/">>,
     <<"https://", "other.org", "/", "x">>,
     <<"mailto:", "x">>,
     <<"https://", "other.org", "/", "x", "/", "?", "offset", "=", "1">>}

Hrefs == GatewayHrefs \cup UpstreamHrefs

LinkRels == {RelSubsection, RelAcquisition, RelThumbnail, RelSearch, ""}

LinkTypes == {MediaTypeOPDSNav, MediaTypeEpub}

Links == [Rel : LinkRels, Href : Hrefs, Type : LinkTypes]

(***************************************************************************)
(* Upstream catalogs.  NavEntry is an entry linking a sub-catalog, AcqEntry *)
(* an entry offering a download.                                           *)
(***************************************************************************)
NavEntry(id, href) ==
    [ID |-> id, Links |-> <<[Rel |-> RelSubsection, Href |-> href, Type |-> MediaTypeOPDSNav]>>]

AcqEntry(id, href) ==
    [ID |-> id, Links |-> <<[Rel |-> RelAcquisition, Href |-> href, Type |-> MediaTypeEpub]>>]

\* Three sub-catalogs below the root; n1 starts a chain three levels deep, n2
\* is an acquisition feed that also links a sub-catalog, n3 is empty.
WorldSiblings ==
    (RootCat :> [Links |-> <<>>,
                 Entries |-> <<NavEntry(1, <<"n1">>), NavEntry(2, <<"n2">>),
                               NavEntry(3, <<"n3">>)>>])
    @@ (RootCat \o <<"/", "n1">> :>
            [Links |-> <<>>, Entries |-> <<NavEntry(11, <<"n4">>)>>])
    @@ (RootCat \o <<"/", "n1", "/", "n4">> :>
            [Links |-> <<>>, Entries |-> <<NavEntry(41, <<"n5">>)>>])
    @@ (RootCat \o <<"/", "n1", "/", "n4", "/", "n5">> :>
            [Links |-> <<>>, Entries |-> <<AcqEntry(51, <<"b.epub">>)>>])
    @@ (RootCat \o <<"/", "n2">> :>
            [Links |-> <<>>,
             Entries |-> <<AcqEntry(21, <<"b.epub">>), NavEntry(22, <<"n4">>)>>])
    @@ (RootCat \o <<"/", "n2", "/", "n4">> :>
            [Links |-> <<>>, Entries |-> <<AcqEntry(23, <<"b.epub">>)>>])
    @@ (RootCat \o <<"/", "n3">> :> [Links |-> <<>>, Entries |-> <<>>])

\* Links back to the root, to the document itself and between siblings.
WorldCycle ==
    (RootCat :> [Links |-> <<>>, Entries |-> <<NavEntry(1, <<"n1">>)>>])
    @@ (RootCat \o <<"/", "n1">> :>
            [Links |-> <<>>,
             Entries |-> <<NavEntry(11, <<"/", "cat">>), NavEntry(12, <<"/", "cat", "/", "n1">>),
                           NavEntry(13, <<"/", "cat", "/", "n2">>)>>])
    @@ (RootCat \o <<"/", "n2">> :>
            [Links |-> <<>>, Entries |-> <<NavEntry(21, <<"/", "cat", "/", "n1">>)>>])

\* One sub-catalog linked from two siblings and from the root, and a
\* sub-catalog on another host.
WorldDiamond ==
    (RootCat :> [Links |-> <<>>,
                 Entries |-> <<NavEntry(1, <<"n1">>), NavEntry(2, <<"n2">>),
                               NavEntry(3, <<"https://", "other.org", "/", "n3">>),
                               NavEntry(4, <<"n3">>)>>])
    @@ (RootCat \o <<"/", "n1">> :>
            [Links |-> <<>>, Entries |-> <<NavEntry(11, <<"/", "cat", "/", "n3">>)>>])
    @@ (RootCat \o <<"/", "n2">> :>
            [Links |-> <<>>, Entries |-> <<NavEntry(21, <<"/", "cat", "/", "n3">>)>>])
    @@ (RootCat \o <<"/", "n3">> :>
            [Links |-> <<>>, Entries |-> <<AcqEntry(31, <<"b.epub">>)>>])
    @@ (<<"https://", "other.org", "/", "n3">> :>
            [Links |-> <<>>, Entries |-> <<AcqEntry(32, <<"b.epub">>)>>])

CrawlWorlds == {"siblings", "cycle", "diamond"}

CrawlWorld(name) ==
    CASE name = "siblings" -> WorldSiblings
      [] name = "cycle"    -> WorldCycle
      [] name = "diamond"  -> WorldDiamond

\* The largest poll_depth a source is configured with.
MaxDepth == 3

(***************************************************************************)
(* Paginated upstream feeds: page i carries two entries and, unless it is  *)
(* the last page, a rel="next" link.  The styles differ in how the next    *)
(* link is written: an absolute URL, a query-only reference, a path from   *)
(* the host's root, or a path relative to the page itself.  The URL of     *)
(* page i + 1 is the next href of page i resolved against the URL of page  *)
(* i, the base path taken as a directory.                                  *)
(***************************************************************************)
PageStyles == {"absolute", "query", "rooted", "nested"}

\* The longest chain of pages.
MaxChain == 3

PageAtom == <<"p1", "p2", "p3", "p4", "p5", "p6">>

ListURL == RootCat \o <<"/", "list">>

\* The href of the next link on page i.
NextHref(style, i) ==
    CASE style = "absolute" -> ListURL \o <<"?", "page", "=", PageAtom[i + 1]>>
      [] style = "query"    -> <<"?", "page", "=", PageAtom[i + 1]>>
      [] style = "rooted"   -> <<"/", "cat", "/", PageAtom[i + 1]>>
      [] style = "nested"   -> <<PageAtom[i + 1]>>

RECURSIVE PageURL(_, _)
PageURL(style, i) ==
    IF i = 1 THEN ListURL
    ELSE crawlerResolveURL(PageURL(style, i - 1), NextHref(style, i - 1))

PageEntries(i) == <<AcqEntry(10 * i + 1, <<"b.epub">>), AcqEntry(10 * i + 2, <<"c.epub">>)>>

PageDoc(style, i, n) ==
    [Links   |-> IF i < n
                 THEN <<[Rel |-> RelNext, Href |-> NextHref(style, i), Type |-> MediaTypeAtom]>>
                 ELSE <<>>,
     Entries |-> PageEntries(i)]

PageWorld(style, n) ==
    LET urls == {PageURL(style, i) : i \in 1..n}
    IN  [u \in urls |-> PageDoc(style, CHOOSE i \in 1..n : PageURL(style, i) = u, n)]

(***************************************************************************)
(* server/handlers.go: the query handling of the request resolver.  A      *)
(* parsed query (url.Values) is the sequence of its [key, value] pairs.    *)
(***************************************************************************)
\* The query keys of the model, in the order sort.Strings gives them.
QueryKeys == <<"k", "limit", "offset", "page", "q", "upstream", "url", "z">>

ParsePair(pair) ==
    LET i == Index(pair, <<"=">>)
    IN  IF i = 0 THEN [key |-> QueryUnescape(pair), value |-> <<>>]
        ELSE [key   |-> QueryUnescape(SubSeq(pair, 1, i - 1)),
              value |-> QueryUnescape(SubSeq(pair, i + 1, Len(pair)))]

BadPair(pair) == \E i \in 1..Len(pair) : pair[i] \in BadEscapes

\* url.ParseQuery: the pairs that unescape; a pair that does not is left out
\* and makes the call return an error beside the values.
ParseQuery(q) ==
    LET parts == SelectSeq(Split(q, "&"), LAMBDA x : x # <<>> /\ ~BadPair(x))
    IN  [i \in 1..Len(parts) |-> ParsePair(parts[i])]

\* The error of url.ParseQuery.
ParseQueryErr(q) == BadPair(q)

\* Values.Get: the first value of the key, empty when there is none.
QueryGet(values, key) ==
    LET hits == SelectSeq(values, LAMBDA v : v.key = <<key>>)
    IN  IF hits = <<>> THEN <<>> ELSE hits[1].value

\* The url parameter as resolveFeed and HandleSource read it: empty when
\* the query does not parse.
ExtURLOf(q) == IF ParseQueryErr(q) THEN <<>> ELSE QueryGet(ParseQuery(q), "url")

\* Values.Del
QueryDel(values, key) == SelectSeq(values, LAMBDA v : v.key # <<key>>)

\* Values.Encode: the keys sorted, every pair written key=value, escaped.
RECURSIVE EncodeFrom(_, _)
EncodeFrom(values, i) ==
    IF i > Len(QueryKeys) THEN <<>>
    ELSE LET mine == SelectSeq(values, LAMBDA v : v.key = <<QueryKeys[i]>>)
             RECURSIVE Write(_)
             Write(vs) == IF vs = <<>> THEN <<>>
                          ELSE <<"&">> \o QueryEscape(vs[1].key) \o <<"=">>
                               \o QueryEscape(vs[1].value) \o Write(Tail(vs))
         IN  Write(mine) \o EncodeFrom(values, i + 1)

Encode(values) == LET s == EncodeFrom(values, 1) IN IF s = <<>> THEN <<>> ELSE Tail(s)

stripPaginationParams(rawQuery) ==
    IF rawQuery = <<>> THEN <<>>
    ELSE IF ParseQueryErr(rawQuery) THEN rawQuery
    ELSE Encode(QueryDel(QueryDel(ParseQuery(rawQuery), "offset"), "limit"))

\* The head of resolveFeed: the trimmed sub-path, the cleaned query and the
\* cache key.
KeyOf(sub, cleanQuery) ==
    [subPath    |-> sub,
     cleanQuery |-> cleanQuery,
     cacheKey   |-> IF cleanQuery # <<>> THEN sub \o <<"?">> \o cleanQuery ELSE sub]

ResolveKey(subPath, rawQuery) ==
    KeyOf(TrimSuffix(TrimPrefix(subPath, <<"/">>), <<"/">>), stripPaginationParams(rawQuery))

\* The cache key of the ext branch.
ExtKey(extURL) == <<"ext", "?", "url", "=">> \o QueryEscape(extURL)

\* The upstream base URL HandleSource rewrites the served document with.
ExtBase(treeURL, extURL) == IF extURL # <<>> THEN extURL ELSE treeURL

ServeBase(treeURL, subPath, rawQuery) ==
    IF TrimPrefix(TrimSuffix(subPath, <<"/">>), <<"/">>) = <<"ext">>
    THEN ExtBase(treeURL, ExtURLOf(rawQuery))
    ELSE IF subPath # <<>> THEN joinURL(treeURL, subPath, <<>>)
    ELSE treeURL

\* The path the router matches: the path as written when the request line
\* carries an encoding that is not the default one, else the decoded path.
PathEscapeAtom(a) ==
    CASE a = "%2F" -> "%252F"
      [] a = "?"   -> "%3F"
      [] OTHER     -> a

RoutePath(u) ==
    IF [i \in 1..Len(u.Path) |-> PathEscapeAtom(u.Path[i])] # u.RawPath
    THEN u.RawPath ELSE u.Path

\* The route /opds/source/{slug}/*: slug, the rest of the path and the raw
\* query of a request; ok is false when the route does not match.
RouteOf(path, rawQuery) ==
    IF HasPrefix(path, SourcePrefix) /\ Len(path) >= Len(SourcePrefix) + 2
       /\ path[Len(SourcePrefix) + 1] # "/" /\ path[Len(SourcePrefix) + 2] = "/"
    THEN [ok |-> TRUE, slug |-> path[Len(SourcePrefix) + 1],
          subPath |-> SubSeq(path, Len(SourcePrefix) + 3, Len(path)),
          rawQuery |-> rawQuery]
    ELSE [ok |-> FALSE, slug |-> "", subPath |-> <<>>, rawQuery |-> <<>>]

RouteParsed(u) == RouteOf(RoutePath(u), u.RawQuery)

RouteSource(href) == RouteParsed(Parse(href))

\* A string that has no value yet.
NoStr == <<"-">>

\* fetchWithPaginationLimit
fetchWithPaginationLimit(w, fail, feedURL, feedCfg) ==
    IF feedCfg.MaxPaginate = 0 THEN FetchPaginated(w, fail, feedURL)
    ELSE FetchWithLimit(w, fail, feedURL, feedCfg.MaxPaginate)

\* Go's int, scaled down to four bits: the values -8..7.  A sum beyond
\* MaxInt wraps around to the negative numbers.
MaxInt == 7

WrapInt(n) == ((n + MaxInt + 1) % (2 * (MaxInt + 1))) - (MaxInt + 1)

\* strconv.Atoi and strconv.Itoa on the numbers the model writes with one
\* atom; every other text is no number, and a number beyond MaxInt is out of
\* range.
Digits == <<"0", "1", "2", "3", "4", "5", "6", "7", "8", "9">>

DigitValue(a) == (CHOOSE i \in 1..Len(Digits) : Digits[i] = a) - 1

Atoi(v) ==
    IF /\ Len(v) = 1
       /\ \E i \in 1..Len(Digits) : Digits[i] = v[1]
       /\ DigitValue(v[1]) <= MaxInt
    THEN [ok |-> TRUE, n |-> DigitValue(v[1])]
    ELSE [ok |-> FALSE, n |-> 0]

Itoa(n) == <<Digits[n + 1]>>

\* Values.Set
QuerySet(values, key, value) == Append(QueryDel(values, key), [key |-> <<key>>, value |-> value])

\* getMaxEntries: the setting of the source, else the server's default.
getMaxEntries(feedCfg, defaultMaxEntries) ==
    IF feedCfg.MaxEntries > 0 THEN feedCfg.MaxEntries ELSE defaultMaxEntries

\* parsePaginationParams: limit and offset of the request's query, the
\* default limit and offset 0 where they are missing or no such number.
parsePaginationParams(rawQuery, defaultLimit) ==
    LET values == ParseQuery(rawQuery)
        l      == Atoi(QueryGet(values, "limit"))
        o      == Atoi(QueryGet(values, "offset"))
    IN  [offset |-> IF o.ok /\ o.n >= 0 THEN o.n ELSE 0,
         limit  |-> IF l.ok /\ l.n > 0 THEN l.n ELSE defaultLimit]

buildPaginationURL(basePath, rawQuery, offset, limit) ==
    LET values == QueryDel(QueryDel(ParseQuery(rawQuery), "offset"), "limit")
        withO  == IF offset > 0 THEN QuerySet(values, "offset", Itoa(offset)) ELSE values
    IN  basePath \o <<"?">> \o Encode(QuerySet(withO, "limit", Itoa(limit)))

PageLink(rel, basePath, rawQuery, offset, limit) ==
    [Rel |-> rel, Href |-> buildPaginationURL(basePath, rawQuery, offset, limit),
     Type |-> MediaTypeAtom]

\* addPaginationLinks: the links that are no pagination links, then first,
\* previous, next and last.
addPaginationLinks(existingLinks, basePath, rawQuery, offset, limit, total) ==
    SelectSeq(existingLinks, LAMBDA l : l.Rel \notin {RelFirst, RelPrevious, RelNext, RelLast})
    \o <<PageLink(RelFirst, basePath, rawQuery, 0, limit)>>
    \o (IF offset > 0
        THEN <<PageLink(RelPrevious, basePath, rawQuery,
                        IF offset - limit < 0 THEN 0 ELSE offset - limit, limit)>>
        ELSE <<>>)
    \o (IF WrapInt(offset + limit) < total
        THEN <<PageLink(RelNext, basePath, rawQuery, WrapInt(offset + limit), limit)>>
        ELSE <<>>)
    \o <<PageLink(RelLast, basePath, rawQuery, ((total - 1) \div limit) * limit, limit)>>

\* What a call returns that ended in the runtime panic "slice bounds out of
\* range".
SliceBoundsPanic == [Panic |-> "slice bounds out of range"]

\* paginateFeed: a copy of the document with the entries start+1..end, the
\* OpenSearch elements and the pagination links.  The slice expression
\* feed.Entries[start:end] panics unless 0 <= start <= end <= cap.
paginateFeed(feed, basePath, rawQuery, offset, limit) ==
    LET total == Len(feed.Entries)
        start == IF offset > total THEN total ELSE offset
        end   == IF WrapInt(start + limit) > total THEN total ELSE WrapInt(start + limit)
    IN  IF total = 0 THEN feed
        ELSE IF start < 0 \/ end < start THEN SliceBoundsPanic
        ELSE [Links |-> addPaginationLinks(feed.Links, basePath, rawQuery, offset, limit, total),
              Entries |-> SubSeq(feed.Entries, start + 1, end),
              TotalResults |-> total, ItemsPerPage |-> limit, StartIndex |-> start + 1]
             @@ feed

\* HandleSource: the pagination, applied when there is a page size and the
\* document has entries.
Paginated(feed, maxEntries, slug, subPath, rawQuery) ==
    LET pp == parsePaginationParams(rawQuery, maxEntries)
    IN  IF maxEntries > 0 /\ Len(feed.Entries) > 0
        THEN paginateFeed(feed, SourcePrefix \o <<slug, "/">> \o subPath, rawQuery,
                          pp.offset, pp.limit)
        ELSE feed

(***************************************************************************)
(* search/search.go.  descs maps the URL of an OpenSearch description to   *)
(* its Url elements [Template, Type]; a template is a URL with the atoms   *)
(* {searchTerms} and {startPage?} in it.  A category is [Term, Scheme].    *)
(***************************************************************************)
MediaTypeOpenSearch == "application/opensearchdescription+xml"

MediaTypeHTML == "text/html"

SourceScheme == "urn:opds-aggregator:source"

\* The end of fetchSearchTemplate: the first template of an Atom type, else
\* the first template, else an error.
TemplateOf(urls) ==
    LET atom == SelectSeq(urls, LAMBDA u : u.Type \in {MediaTypeOPDSNav, MediaTypeAtom})
    IN  IF atom # <<>> THEN [ok |-> TRUE, tmpl |-> atom[1].Template]
        ELSE IF urls # <<>> THEN [ok |-> TRUE, tmpl |-> urls[1].Template]
        ELSE [ok |-> FALSE, tmpl |-> <<>>]

fetchSearchTemplate(descs, fail, descURL) ==
    IF descURL \in DOMAIN descs /\ descURL \notin fail THEN TemplateOf(descs[descURL])
    ELSE [ok |-> FALSE, tmpl |-> <<>>]

RECURSIVE expandTemplate(_, _)
expandTemplate(tmpl, query) ==
    IF tmpl = <<>> THEN <<>>
    ELSE (IF Head(tmpl) = "{searchTerms}" THEN QueryEscape(query)
          ELSE IF Head(tmpl) = "{startPage?}" THEN <<>>
          ELSE <<Head(tmpl)>>)
         \o expandTemplate(Tail(tmpl), query)

\* searchUpstream: the source's category appended to every entry.
TagEntries(found, slug) ==
    [i \in 1..Len(found) |->
        [found[i] EXCEPT !.Categories = Append(@, [Term |-> slug, Scheme |-> SourceScheme])]]

\* SearchSource after fetchSearchTemplate: [Err, Feed].
SearchSourceWith(w, fail, tmpl, query) ==
    IF ~tmpl.ok THEN [Err |-> TRUE, Feed |-> NoFeed]
    ELSE [Err  |-> FetchPaginated(w, fail, expandTemplate(tmpl.tmpl, query)).Err,
          Feed |-> FetchPaginated(w, fail, expandTemplate(tmpl.tmpl, query)).Feed]

SearchSource(w, descs, fail, searchDescURL, query) ==
    SearchSourceWith(w, fail, fetchSearchTemplate(descs, fail, searchDescURL), query)

\* The document Search starts from, with the merged entries.
SearchResults(query, found) ==
    [Links   |-> <<[Rel |-> RelSelf,
                    Href |-> <<"/", "opds", "/", "search", "?", "q", "=">> \o QueryEscape(query),
                    Type |-> MediaTypeAtom],
                   [Rel |-> RelStart, Href |-> <<"/", "opds">>, Type |-> MediaTypeAtom]>>,
     Entries |-> found]

(***************************************************************************)
(* The upstream the gateway serves: a root catalog linking sub-catalogs    *)
(* with and without a trailing slash, with a query, with an encoded slash  *)
(* and on another host; the sub-catalog books has a second page.           *)
(***************************************************************************)
MainHrefs ==
    [books      |-> <<"books">>,
     booksSlash |-> <<"books", "/">>,
     list       |-> <<"list", "?", "z", "=", "1", "&", "k", "=", "2">>,
     otherHost  |-> <<"https://", "other.org", "/", "x", "?", "k", "=", "1", "&", "z", "=", "2">>,
     encoded    |-> <<"x", "%2F", "books">>,
     vol        |-> <<"vol">>,
     page2      |-> <<"p2">>,
     pagedQuery |-> <<"limit", "=", "1", "&", "offset", "=", "2", "&", "z", "=", "1",
                      "&", "k", "=", "2">>,
     badQuery   |-> <<"offset", "=", "2", "&", "z", "=", "%zz">>]

\* An entry of a search result, with the categories upstream gave it.
FoundEntry(id, href, cats) ==
    [ID |-> id, Categories |-> cats,
     Links |-> <<[Rel |-> RelAcquisition, Href |-> href, Type |-> MediaTypeEpub]>>]

\* The root catalogs of three more sources, on another host: lib2 offers a
\* search, the search description of lib3 names no template, lib4 offers no
\* search.
RootLib2 == <<"https://", "other.org", "/", "lib2">>

RootLib3 == <<"https://", "other.org", "/", "lib3">>

RootLib4 == <<"https://", "other.org", "/", "lib4">>

\* The OpenSearch descriptions upstream serves.  The one of lib2 lists an
\* HTML template before the Atom one, the one of lib3 has no template.
SearchDescs ==
    (<<"https://", "ex.org", "/", "osd">> :>
        <<[Template |-> <<"https://", "ex.org", "/", "find", "?", "q", "=", "{searchTerms}">>,
           Type |-> MediaTypeAtom]>>)
    @@ (<<"https://", "other.org", "/", "osd">> :>
        <<[Template |-> <<"https://", "other.org", "/", "html", "?", "q", "=", "{searchTerms}">>,
           Type |-> MediaTypeHTML],
          [Template |-> <<"https://", "other.org", "/", "find", "?", "q", "=", "{searchTerms}",
                          "{startPage?}">>,
           Type |-> MediaTypeAtom]>>)
    @@ (<<"https://", "other.org", "/", "none">> :> <<>>)

MainWorld ==
    (RootCat :> [Links |-> <<[Rel |-> RelSearch, Href |-> <<"/", "osd">>,
                              Type |-> MediaTypeOpenSearch]>>,
                 Entries |-> <<NavEntry(1, MainHrefs.books), NavEntry(2, MainHrefs.booksSlash),
                               NavEntry(3, MainHrefs.list), NavEntry(4, MainHrefs.otherHost),
                               NavEntry(5, MainHrefs.encoded)>>])
    @@ (RootCat \o <<"/">> \o MainHrefs.books :>
            [Links |-> <<[Rel |-> RelNext, Href |-> MainHrefs.page2, Type |-> MediaTypeAtom]>>,
             Entries |-> <<NavEntry(11, MainHrefs.vol)>>])
    @@ (RootCat \o <<"/">> \o MainHrefs.books \o <<"/">> \o MainHrefs.page2 :>
            [Links |-> <<>>, Entries |-> <<NavEntry(13, <<"vol2">>)>>])
    @@ (RootCat \o <<"/">> \o MainHrefs.booksSlash :>
            [Links |-> <<>>, Entries |-> <<AcqEntry(21, <<"b.epub">>)>>])
    @@ (RootCat \o <<"/">> \o MainHrefs.books \o <<"/">> \o MainHrefs.vol :>
            [Links |-> <<>>, Entries |-> <<AcqEntry(12, <<"b.epub">>)>>])
    @@ (RootCat \o <<"/">> \o MainHrefs.list :>
            [Links |-> <<>>, Entries |-> <<AcqEntry(31, <<"b.epub">>)>>])
    @@ (RootCat \o <<"/", "list", "?", "k", "=", "2", "&", "z", "=", "1">> :>
            [Links |-> <<>>, Entries |-> <<AcqEntry(31, <<"b.epub">>)>>])
    @@ (RootCat \o <<"/", "list", "?">> \o MainHrefs.badQuery :>
            [Links |-> <<>>, Entries |-> <<AcqEntry(31, <<"b.epub">>)>>])
    @@ (MainHrefs.otherHost :>
            [Links |-> <<>>, Entries |-> <<AcqEntry(41, <<"b.epub">>)>>])
    @@ (RootCat \o <<"/">> \o MainHrefs.encoded :>
            [Links |-> <<>>, Entries |-> <<AcqEntry(51, <<"b.epub">>)>>])
    @@ (<<"https://", "ex.org", "/", "find", "?", "q", "=", "x">> :>
            [Links |-> <<>>,
             Entries |-> <<FoundEntry(61, <<"b.epub">>, <<>>),
                           FoundEntry(62, <<"https://", "ex.org", "/", "cat", "/", "c.epub">>,
                                      <<[Term |-> "fiction", Scheme |-> "urn:genre"]>>)>>])
    @@ (RootLib2 :> [Links |-> <<[Rel |-> RelSearch, Href |-> <<"/", "osd">>,
                                  Type |-> MediaTypeOpenSearch]>>,
                     Entries |-> <<NavEntry(71, <<"new">>)>>])
    @@ (<<"https://", "other.org", "/", "find", "?", "q", "=", "x">> :>
            [Links |-> <<>>,
             Entries |-> <<FoundEntry(72, <<"d.epub">>, <<>>),
                           FoundEntry(73, <<"e.epub">>,
                                      <<[Term |-> "mirror", Scheme |-> SourceScheme]>>)>>])
    @@ (RootLib3 :> [Links |-> <<[Rel |-> RelSearch, Href |-> <<"/", "none">>,
                                  Type |-> MediaTypeOpenSearch]>>,
                     Entries |-> <<NavEntry(81, <<"new">>)>>])
    @@ (RootLib4 :> [Links |-> <<>>, Entries |-> <<NavEntry(91, <<"new">>)>>])

\* The slug of the configured source.
Slug == "lib"

\* A client follows a link of a document the gateway served: the href is the
\* rewritten one, want the upstream URL the link points at.
FollowLink(docURL, href) ==
    [href |-> rewriteHref([Rel |-> RelSubsection, Href |-> href, Type |-> MediaTypeOPDSNav],
                          Slug, docURL, RootCat, <<>>),
     want |-> resolveURL(docURL, href)]

LinkRequests ==
    {FollowLink(RootCat, h) :
        h \in {MainHrefs.books, MainHrefs.booksSlash, MainHrefs.list, MainHrefs.otherHost, MainHrefs.encoded}}
    \cup {FollowLink(RootCat \o <<"/">> \o MainHrefs.books, MainHrefs.vol)}

\* Requests a client makes up itself: the source root, a source that is
\* not configured, and a sub-catalog with the gateway's pagination
\* parameters, in a query that parses and in one that does not.
RawRequests ==
    {[href |-> SourcePrefix \o <<Slug, "/">>, want |-> NoStr],
     [href |-> SourcePrefix \o <<"nolib", "/", "books">>, want |-> NoStr],
     [href |-> SourcePrefix \o <<Slug, "/", "list", "?">> \o MainHrefs.pagedQuery,
      want |-> NoStr],
     [href |-> SourcePrefix \o <<Slug, "/", "list", "?">> \o MainHrefs.badQuery,
      want |-> NoStr]}

ClientRequests == LinkRequests \cup RawRequests

\* The requests for the merged search: with a query and without.
SearchRequests ==
    {<<"/", "opds", "/", "search", "?", "q", "=", "x">>,
     <<"/", "opds", "/", "search">>}

\* The requests for the search of one source: the search link of the served
\* root document as the rewriter emits it (the reader asks for the search
\* description), the same with a query, one whose upstream description names
\* no template, and one without the upstream parameter.
SourceSearchRequests ==
    {rewriteHref(MainWorld[RootCat].Links[1], Slug, RootCat, RootCat, <<>>),
     rewriteHref(MainWorld[RootCat].Links[1], Slug, RootCat, RootCat, <<>>)
        \o <<"&", "q", "=", "x">>,
     SearchPrefix \o <<Slug, "?", "upstream", "=">>
        \o QueryEscape(<<"https://", "other.org", "/", "none">>) \o <<"&", "q", "=", "x">>,
     SearchPrefix \o <<Slug, "?", "q", "=", "x">>}

\* The files upstream offers for download.
Files == {RootCat \o <<"/", "b.epub">>}

\* The requests for a download: an acquisition link as the rewriter emits
\* it, one without the url parameter, one whose url is not http(s), one
\* whose url does not parse.
DownloadRequests ==
    {DownloadHref(<<>>, Slug, RootCat \o <<"/", "b.epub">>),
     DownloadPrefix \o <<Slug>>,
     DownloadHref(<<>>, Slug, <<"mailto:", "x">>),
     DownloadHref(<<>>, Slug, RootCat \o <<"/", "%zz">>)}

StatusOK == 200

StatusBadRequest == 400

StatusNotFound == 404

StatusBadGateway == 502

\* The goroutines serving requests.
Procs == {1, 2}

\* entries[slug] when the slug has no entry, and while a write of the entry
\* is under way.
NoEntry == 0

Torn == -1

VARIABLES
    urlT,    \* the URL functions applied to drawn inputs
    crawlT,  \* one Crawl of a drawn upstream, with its result
    fetchT,  \* one FetchWithLimit of a drawn paginated feed, with its result; in
             \* SpecAuth the upstream requests of one call
    cfgT,    \* one drawn configuration, validated and handed to NewHandler
    viewT,   \* a FeedCache alone: its map, and the maps All has returned
    feedMap, \* Handler.feedMap: slug -> FeedConfig
    entries, \* FeedCache.entries: slug -> the tree cached (a key of trees)
    mu,      \* FeedCache.mu: [writer, readers]
    trees,   \* the FeedTree objects, by the goroutine that crawled them
    writing, \* per tree, the goroutines inside a write of its Children map
    req,     \* per goroutine, the request it serves
    raced,   \* a Children map was accessed during a write of it
    crashed, \* the runtime ended the process
    srch     \* per goroutine, the search or download it serves

serverVars == <<feedMap, entries, mu, trees, writing, req, raced, crashed, srch>>

vars == <<urlT, crawlT, fetchT, cfgT, viewT, feedMap, entries, mu, trees, writing, req, raced, crashed,
          srch>>

\* One call of HandleSource.  The fields after body are history: stored is
\* the tree fc.entries held for the source when the request wrote its child
\* into its own tree; n counts the requests the goroutine's slot has
\* served; expect is the children that had been inserted when the request
\* came in; start is the first request of a client that follows next links,
\* seen the entries it has received before this request.
IdleReq ==
    [pc |-> "idle", href |-> NoStr, want |-> NoStr, slug |-> "", subPath |-> <<>>,
     rawQuery |-> <<>>, got |-> NoEntry, tree |-> NoEntry, key |-> NoStr,
     fetchURL |-> NoStr, feed |-> NoFeed, feedURL |-> NoStr, base |-> NoStr,
     status |-> 0, failed |-> FALSE, cancelled |-> FALSE, body |-> NoFeed,
     stored |-> NoEntry, n |-> 0, expect |-> {}, start |-> NoStr, seen |-> {}]

\* A fan-out task of Search: where it is, the URL it fetches next, the
\* tagged entries it has got, and the results.Entries it read for its append.
IdleTask == [pc |-> "none", url |-> NoStr, found |-> <<>>, base |-> <<>>]

\* One call of Search, SearchSource or FetchRaw: the query, the URL given in
\* the request, the index of Search's loop over cfg.Feeds, its tasks by
\* slug, its results.Entries, and the task holding its mutex ("" for none).
IdleSearch ==
    [query |-> <<>>, url |-> NoStr, i |-> 1, tasks |-> EmptyMap, results |-> <<>>,
     smu |-> ""]

\* server.default_max_entries, as it is without a setting.
DefaultMaxEntries == 0

\* The server as NewHandler and NewFeedCache leave it, for the settings of
\* the one source.
ServerInitWith(depths, maxEntries, maxPaginate) ==
    /\ \E d \in depths, e \in maxEntries, k \in maxPaginate :
          feedMap = (Slug :> [URL |-> RootCat, PollDepth |-> d, MaxEntries |-> e,
                              MaxPaginate |-> k])
    /\ entries = (Slug :> NoEntry)
    /\ mu = [writer |-> 0, readers |-> {}]
    /\ trees = [p \in Procs |-> NoTree]
    /\ writing = [p \in Procs |-> {}]
    /\ req = [p \in Procs |-> IdleReq]
    /\ raced = FALSE
    /\ crashed = FALSE
    /\ srch = [p \in Procs |-> IdleSearch]

ServerInit(depths) == ServerInitWith(depths, {0}, {0})

\* The value of urlT, crawlT and fetchT in the specifications that do not
\* use them.
Idle == [phase |-> "idle"]

(***************************************************************************)
(* SpecURL: the URL functions of server/rewrite.go applied to every root,  *)
(* document base and link of the input sets.                               *)
(***************************************************************************)
InitURL ==
    /\ crawlT = Idle
    /\ cfgT = Idle
    /\ viewT = Idle
    /\ fetchT = Idle
    /\ ServerInit({0})
    /\ \E root \in Roots, sub \in {<<>>, <<"books">>}, l \in Links :
        urlT = [phase |-> "start", root |-> root,
                base |-> IF sub = <<>> THEN root ELSE joinURL(root, sub, <<>>),
                link |-> l,
                resolved |-> NoStr, rel |-> NoStr, joined |-> NoStr,
                once |-> NoStr, twice |-> NoStr]

\* The forward and the reverse direction, one after the other.
RoundTrip ==
    /\ urlT.phase = "start"
    /\ LET resolved == resolveURL(urlT.root, urlT.link.Href)
           rel      == makeRelativePath(urlT.root, resolved)
       IN  urlT' = [urlT EXCEPT !.phase = "roundtrip", !.resolved = resolved,
                                !.rel = rel, !.joined = joinURL(urlT.root, rel, <<>>)]
    /\ UNCHANGED <<crawlT, fetchT, cfgT, viewT>>
    /\ UNCHANGED serverVars

\* rewriteFeedLinks on a document carrying the link.
Rewrite ==
    /\ urlT.phase = "start"
    /\ LET feed == [Links |-> <<urlT.link>>, Entries |-> <<[ID |-> 1, Links |-> <<urlT.link>>]>>]
           out  == rewriteFeedLinks(feed, "s1", urlT.base, urlT.root, <<>>)
       IN  /\ out.Links[1].Href = out.Entries[1].Links[1].Href
           /\ urlT' = [urlT EXCEPT !.phase = "once", !.once = out.Links[1].Href]
    /\ UNCHANGED <<crawlT, fetchT, cfgT, viewT>>
    /\ UNCHANGED serverVars

\* rewriteFeedLinks on its own output.
RewriteAgain ==
    /\ urlT.phase = "once"
    /\ LET l    == [urlT.link EXCEPT !.Href = urlT.once]
           feed == [Links |-> <<l>>, Entries |-> <<[ID |-> 1, Links |-> <<l>>]>>]
           out  == rewriteFeedLinks(feed, "s1", urlT.base, urlT.root, <<>>)
       IN  urlT' = [urlT EXCEPT !.phase = "twice", !.twice = out.Links[1].Href]
    /\ UNCHANGED <<crawlT, fetchT, cfgT, viewT>>
    /\ UNCHANGED serverVars

NextURL == RoundTrip \/ Rewrite \/ RewriteAgain

SpecURL == InitURL /\ [][NextURL]_vars

\* C1: for every root R and every href P whose resolved URL is on R's host
\* and literally below R's path, joinURL(R, makeRelativePath(R, resolveURL(R,
\* P)), "") is resolveURL(R, P).
BelowRoot(root, resolved) ==
    LET r == Parse(root)
        f == Parse(resolved)
    IN  /\ r.Host = f.Host
        /\ HasPrefix(f.RawPath, TrimSuffix(r.RawPath, <<"/">>) \o <<"/">>)

C1_RoundTrip ==
    (urlT.phase = "roundtrip" /\ BelowRoot(urlT.root, urlT.resolved))
        => urlT.joined = urlT.resolved

\* C3: a link whose href already is a gateway path keeps its href, and
\* rewriting the rewriter's output again changes no href.
C3_IdempotentRewrite ==
    /\ (urlT.phase \in {"once", "twice"} /\ urlT.link.Href \in GatewayHrefs)
          => urlT.once = urlT.link.Href
    /\ urlT.phase = "twice" => urlT.twice = urlT.once

C3_Witness ==
    /\ urlT.phase = "twice"
    /\ urlT.link.Href = <<"books">>
    /\ urlT.link.Rel = RelSubsection
    /\ urlT.once = SourcePrefix \o <<"s1", "/", "books">>
    /\ urlT.twice = urlT.once

(***************************************************************************)
(* SpecCrawl: Crawl on every upstream of CrawlWorlds, for every depth      *)
(* limit up to MaxDepth and every set of failing URLs.                     *)
(***************************************************************************)
InitCrawl ==
    /\ urlT = Idle
    /\ cfgT = Idle
    /\ viewT = Idle
    /\ fetchT = Idle
    /\ ServerInit({0})
    /\ \E name \in CrawlWorlds, depth \in 0..MaxDepth :
         \E fail \in SUBSET (DOMAIN CrawlWorld(name)) :
            crawlT = [phase |-> "start", world |-> name, fail |-> fail,
                      cfg |-> [URL |-> RootCat, PollDepth |-> depth],
                      out |-> [Err |-> FALSE, Tree |-> NoTree, Log |-> <<>>]]

DoCrawl ==
    /\ crawlT.phase = "start"
    /\ crawlT' = [crawlT EXCEPT !.phase = "done",
                     !.out = Crawl(CrawlWorld(crawlT.world), crawlT.fail, crawlT.cfg)]
    /\ UNCHANGED <<urlT, fetchT, cfgT, viewT>>
    /\ UNCHANGED serverVars

SpecCrawl == InitCrawl /\ [][DoCrawl]_vars

\* The number of levels below a tree node.
RECURSIVE TreeDepth(_)
TreeDepth(t) ==
    IF DOMAIN t.Children = {} THEN 0
    ELSE LET ds == {TreeDepth(t.Children[k]) : k \in DOMAIN t.Children}
         IN  1 + CHOOSE d \in ds : \A e \in ds : e <= d

\* The URLs of the nodes below a tree node.
RECURSIVE NodeURLs(_)
NodeURLs(t) ==
    UNION {{t.Children[k].URL} \cup NodeURLs(t.Children[k]) : k \in DOMAIN t.Children}

\* C7: Crawl with depth limit N inserts no node more than N levels below the
\* root, and with N = 0 the tree has no children.
C7_DepthBound ==
    (crawlT.phase = "done" /\ ~crawlT.out.Err)
        => /\ TreeDepth(crawlT.out.Tree) <= crawlT.cfg.PollDepth
           /\ crawlT.cfg.PollDepth = 0 => DOMAIN crawlT.out.Tree.Children = {}

\* The upstream offers a third level, the limit is 2, the tree stops at 2.
C7_Witness ==
    /\ crawlT.phase = "done"
    /\ crawlT.world = "siblings"
    /\ crawlT.fail = {}
    /\ crawlT.cfg.PollDepth = 2
    /\ TreeDepth(crawlT.out.Tree) = 2
    /\ RootCat \o <<"/", "n1", "/", "n4", "/", "n5">> \in DOMAIN CrawlWorld("siblings")

\* Every sub-catalog link of a crawled node either has its key among the
\* node's children or points at a URL whose fetch fails.
RECURSIVE BranchesKept(_, _, _, _, _)
BranchesKept(w, fail, cfg, t, depth) ==
    LET links == EntryLinks(t.Feed.Entries)
    IN  /\ \A i \in 1..Len(links) :
              isNavigationLink(links[i]) =>
                  LET absURL == crawlerResolveURL(t.URL, links[i].Href)
                  IN  \/ relativePath(cfg.URL, absURL) \in DOMAIN t.Children
                      \/ ~fetchFeed(w, fail, absURL).ok
        /\ \A k \in DOMAIN t.Children :
              (IsNavigationFeed(t.Children[k].Feed) /\ depth < cfg.PollDepth)
                  => BranchesKept(w, fail, cfg, t.Children[k], depth + 1)

Requested(log) == {log[i] : i \in 2..Len(log)}

\* C8: when the root fetch succeeds Crawl returns a tree without error; the
\* tree holds every sub-catalog whose fetch succeeded, and a failed fetch
\* removes nothing but its own branch.
C8_PartialFailure ==
    LET w == CrawlWorld(crawlT.world)
    IN  (crawlT.phase = "done" /\ fetchFeed(w, crawlT.fail, crawlT.cfg.URL).ok)
          => /\ ~crawlT.out.Err
             /\ \A u \in Requested(crawlT.out.Log) :
                   fetchFeed(w, crawlT.fail, u).ok => u \in NodeURLs(crawlT.out.Tree)
             /\ crawlT.cfg.PollDepth > 0
                   => BranchesKept(w, crawlT.fail, crawlT.cfg, crawlT.out.Tree, 1)

\* One of three sub-catalogs fails, as does a descendant of another: the
\* tree holds the other two.
C8_Witness ==
    /\ crawlT.phase = "done"
    /\ crawlT.world = "siblings"
    /\ crawlT.cfg.PollDepth = 2
    /\ crawlT.fail = {RootCat \o <<"/", "n2">>, RootCat \o <<"/", "n1", "/", "n4">>}
    /\ ~crawlT.out.Err
    /\ DOMAIN crawlT.out.Tree.Children = {<<"n1">>, <<"n3">>}

(***************************************************************************)
(* SpecFetch: FetchWithLimit on every paginated feed of up to MaxChain     *)
(* pages, for every page limit and every set of failing pages.             *)
(***************************************************************************)
InitFetch ==
    /\ urlT = Idle
    /\ cfgT = Idle
    /\ viewT = Idle
    /\ crawlT = Idle
    /\ ServerInit({0})
    /\ \E style \in PageStyles, n \in 1..MaxChain, maxPages \in 0..MaxChain :
         \E fail \in SUBSET {PageURL(style, i) : i \in 1..n} :
            fetchT = [phase |-> "start", style |-> style, n |-> n, maxPages |-> maxPages,
                      fail |-> fail,
                      out |-> [Err |-> FALSE, Feed |-> NoFeed, HasMore |-> FALSE,
                               NextURL |-> <<>>, Fetched |-> <<>>, Diverged |-> FALSE]]

DoFetch ==
    /\ fetchT.phase = "start"
    /\ fetchT' = [fetchT EXCEPT !.phase = "done",
                     !.out = FetchWithLimit(PageWorld(fetchT.style, fetchT.n), fetchT.fail,
                                            ListURL, fetchT.maxPages)]
    /\ UNCHANGED <<urlT, crawlT, cfgT, viewT>>
    /\ UNCHANGED serverVars

SpecFetch == InitFetch /\ [][DoFetch]_vars

\* The entries of pages 1..k, in order.
RECURSIVE EntriesUpTo(_)
EntriesUpTo(k) == IF k = 0 THEN <<>> ELSE EntriesUpTo(k - 1) \o PageEntries(k)

\* The number of pages before the first failing one.
GoodPages(style, n, fail) ==
    IF \E i \in 1..n : PageURL(style, i) \in fail
    THEN (CHOOSE i \in 1..n : /\ PageURL(style, i) \in fail
                              /\ \A j \in 1..(i - 1) : PageURL(style, j) \notin fail) - 1
    ELSE n

\* C9: without a limit the merged feed holds the entries of every page and
\* hasMore is false; with a limit k shorter than the chain it holds the
\* first k pages, hasMore is true and nextURL is the URL of page k + 1; a
\* failing later page ends pagination without an error, keeping the entries
\* collected so far.
C9_PaginationMerge ==
    LET n    == fetchT.n
        k    == fetchT.maxPages
        good == GoodPages(fetchT.style, n, fetchT.fail)
        out  == fetchT.out
    IN  (fetchT.phase = "done" /\ good >= 1)
          => /\ ~out.Err
             /\ (k = 0 /\ good = n)
                   => out.Feed.Entries = EntriesUpTo(n) /\ ~out.HasMore
             /\ (k > 0 /\ k < n /\ good >= k)
                   => /\ out.Feed.Entries = EntriesUpTo(k)
                      /\ out.HasMore
                      /\ out.NextURL = PageURL(fetchT.style, k + 1)
             /\ (good < n /\ (k = 0 \/ good < k))
                   => out.Feed.Entries = EntriesUpTo(good) /\ ~out.HasMore

(***************************************************************************)
(* Spec: the gateway serving GET /opds/source/{slug}/* on two goroutines.  *)
(* A handler's network calls and its accesses to shared memory are steps   *)
(* of their own; what a handler computes locally belongs to the step       *)
(* before it.                                                              *)
(***************************************************************************)
Init ==
    /\ urlT = Idle
    /\ cfgT = Idle
    /\ viewT = Idle
    /\ crawlT = Idle
    /\ fetchT = Idle
    /\ ServerInit({0, 1})

\* An RLock that does not wait.
CanRLockAlways(m) == TRUE

\* sync.RWMutex: RLock waits for the writer, Lock for the writer and the
\* readers.
CanRLock(m) == m.writer = 0

CanLock(m) == m.writer = 0 /\ m.readers = {}

\* The end of HandleSource: the pagination, the base URL of the served
\* document, the rewritten document, 200.
Served(r, treeURL, feed, feedURL, base) ==
    [r EXCEPT !.pc = "done", !.status = StatusOK, !.feed = feed, !.feedURL = feedURL,
              !.base = base,
              !.body = rewriteFeedLinks(
                          Paginated(feed, getMaxEntries(feedMap[r.slug], DefaultMaxEntries),
                                    r.slug, r.subPath, r.rawQuery),
                          r.slug, base, treeURL, <<>>)]

Serve(r, treeURL, feed, feedURL) ==
    Served(r, treeURL, feed, feedURL, ServeBase(treeURL, r.subPath, r.rawQuery))

\* http.Error
Fail(r, status) == [r EXCEPT !.pc = "done", !.status = status]

\* HandleSource up to fc.mu.RLock() of FeedCache.Get: the route parameters,
\* feedMap, 404 for a slug that is not configured.
RoutedWith(p, r, c, route) ==
    /\ route.ok
    /\ IF route.slug \in DOMAIN feedMap
       THEN /\ CanRLock(mu)
            /\ mu' = [mu EXCEPT !.readers = @ \cup {p}]
            /\ req' = [req EXCEPT ![p] =
                  [r EXCEPT !.pc = "read", !.href = c.href, !.want = c.want,
                            !.slug = route.slug, !.subPath = route.subPath,
                            !.rawQuery = route.rawQuery]]
       ELSE /\ mu' = mu
            /\ req' = [req EXCEPT ![p] =
                  [r EXCEPT !.pc = "done", !.status = StatusNotFound, !.href = c.href,
                            !.want = c.want, !.slug = route.slug,
                            !.subPath = route.subPath, !.rawQuery = route.rawQuery]]

Routed(p, c, route) == RoutedWith(p, req[p], c, route)

Request(p) ==
    /\ ~crashed
    /\ req[p].pc = "idle"
    /\ \E c \in ClientRequests : Routed(p, c, RouteSource(c.href))
    /\ UNCHANGED <<feedMap, entries, trees, writing, raced, crashed>>
    /\ UNCHANGED <<urlT, crawlT, fetchT, cfgT, viewT, srch>>

\* A Get that returns without RUnlock.
GetReadHoldingLock(p) ==
    /\ ~crashed
    /\ req[p].pc = "read"
    /\ LET e == entries[req[p].slug]
       IN  /\ req' = [req EXCEPT ![p].got = e, ![p].tree = e,
                                 ![p].pc = IF e = NoEntry THEN "crawl" ELSE "resolve"]
           /\ crashed' = (e = Torn)
    /\ mu' = mu
    /\ UNCHANGED <<feedMap, entries, trees, writing, raced>>
    /\ UNCHANGED <<urlT, crawlT, fetchT, cfgT, viewT, srch>>

\* FeedCache.Get: the read of fc.entries and the deferred RUnlock.  A read
\* that meets a write under way has no defined result.
GetRead(p) ==
    /\ ~crashed
    /\ req[p].pc = "read"
    /\ LET e == entries[req[p].slug]
       IN  /\ req' = [req EXCEPT ![p].got = e, ![p].tree = e,
                                 ![p].pc = IF e = NoEntry THEN "crawl" ELSE "resolve"]
           /\ crashed' = (e = Torn)
    /\ mu' = [mu EXCEPT !.readers = @ \ {p}]
    /\ UNCHANGED <<feedMap, entries, trees, writing, raced>>
    /\ UNCHANGED <<urlT, crawlT, fetchT, cfgT, viewT, srch>>

\* The request context is cancelled once the fetch of the URL first has
\* returned: every later fetch fails.
CancelledAfter(first) == (DOMAIN MainWorld) \ {first}

\* The upstream failures of a cold-start crawl: none, the root, or every
\* fetch after the root's because the client has gone.
ColdCrawlFailures == {{}, {RootCat}, CancelledAfter(RootCat)}

\* A handler that drops every crawled tree when a cold-start crawl fails.
CrawledDroppingAll(p, fail, out) ==
    IF out.Err
    THEN /\ req' = [req EXCEPT ![p] = [Fail(@, StatusBadGateway) EXCEPT !.failed = TRUE]]
         /\ trees' = [q \in Procs |-> NoTree]
    ELSE /\ trees' = [trees EXCEPT ![p] = out.Tree]
         /\ req' = [req EXCEPT ![p].pc = "lock",
                               ![p].cancelled = (fail = CancelledAfter(RootCat))]

\* HandleSource, no cached tree: crawler.Crawl, 502 when it fails.
Crawled(p, fail, out) ==
    IF out.Err
    THEN /\ req' = [req EXCEPT ![p] = [Fail(@, StatusBadGateway) EXCEPT !.failed = TRUE]]
         /\ UNCHANGED trees
    ELSE /\ trees' = [trees EXCEPT ![p] = out.Tree]
         /\ req' = [req EXCEPT ![p].pc = "lock",
                               ![p].cancelled = (fail = CancelledAfter(RootCat))]

ColdCrawl(p) ==
    /\ ~crashed
    /\ req[p].pc = "crawl"
    /\ \E fail \in ColdCrawlFailures :
          Crawled(p, fail, Crawl(MainWorld, fail, feedMap[req[p].slug]))
    /\ UNCHANGED <<feedMap, entries, mu, writing, raced, crashed>>
    /\ UNCHANGED <<urlT, crawlT, fetchT, cfgT, viewT, srch>>

\* FeedCache.Put: fc.mu.Lock() and the start of the write of fc.entries.
PutLock(p) ==
    /\ ~crashed
    /\ req[p].pc = "lock"
    /\ CanLock(mu)
    /\ mu' = [mu EXCEPT !.writer = p]
    /\ entries' = [entries EXCEPT ![req[p].slug] = Torn]
    /\ req' = [req EXCEPT ![p].pc = "write"]
    /\ UNCHANGED <<feedMap, trees, writing, raced, crashed>>
    /\ UNCHANGED <<urlT, crawlT, fetchT, cfgT, viewT, srch>>

\* FeedCache.Put: the write done, the deferred Unlock; HandleSource goes on
\* with its own tree.
PutUnlock(p) ==
    /\ ~crashed
    /\ req[p].pc = "write"
    /\ entries' = [entries EXCEPT ![req[p].slug] = p]
    /\ mu' = [mu EXCEPT !.writer = 0]
    /\ req' = [req EXCEPT ![p].tree = p, ![p].pc = "resolve"]
    /\ UNCHANGED <<feedMap, trees, writing, raced, crashed>>
    /\ UNCHANGED <<urlT, crawlT, fetchT, cfgT, viewT, srch>>

\* An access to a Children map while another goroutine writes it is a data
\* race: the runtime may end the process, or the access goes through.
RaceOutcome(race) ==
    /\ raced' = (raced \/ race)
    /\ IF race THEN crashed' \in {TRUE, FALSE} ELSE crashed' = crashed

\* resolveFeed up to the fetch: the root, a child of the tree, the ext
\* branch's child, or the URL to fetch and the key to store it under.
Found(t, key) == [found |-> TRUE, node |-> t.Children[key], key |-> key, fetchURL |-> NoStr]

Missing(key, fetchURL) == [found |-> FALSE, node |-> NoTree, key |-> key, fetchURL |-> fetchURL]

ResolveExt(t, k, extURL) ==
    IF k.subPath = <<"ext">> /\ extURL # <<>>
    THEN IF ExtKey(extURL) \in DOMAIN t.Children THEN Found(t, ExtKey(extURL))
         ELSE Missing(ExtKey(extURL), extURL)
    ELSE Missing(k.cacheKey, joinURL(t.URL, k.subPath, k.cleanQuery))

ResolveCached(t, k) ==
    IF k.subPath = <<>> /\ k.cleanQuery = <<>>
    THEN [found |-> TRUE, node |-> t, key |-> <<>>, fetchURL |-> NoStr]
    ELSE IF k.cacheKey \in DOMAIN t.Children THEN Found(t, k.cacheKey)
    ELSE ResolveExt(t, k, ExtURLOf(k.cleanQuery))

\* The Children map is read unless the request is for the root.
Looked(p, t, k, res) ==
    /\ RaceOutcome(~(k.subPath = <<>> /\ k.cleanQuery = <<>>)
                   /\ writing[req[p].tree] \ {p} # {})
    /\ req' = [req EXCEPT ![p] =
          IF res.found THEN Serve(@, t.URL, res.node.Feed, res.node.URL)
          ELSE [@ EXCEPT !.pc = "fetch", !.key = res.key, !.fetchURL = res.fetchURL]]

LookedKey(p, t, k) == Looked(p, t, k, ResolveCached(t, k))

Lookup(p) ==
    /\ ~crashed
    /\ req[p].pc = "resolve"
    /\ LookedKey(p, trees[req[p].tree], ResolveKey(req[p].subPath, req[p].rawQuery))
    /\ UNCHANGED <<feedMap, entries, mu, trees, writing>>
    /\ UNCHANGED <<urlT, crawlT, fetchT, cfgT, viewT, srch>>

\* The upstream failures of an on-demand fetch: none, the first page, or
\* every fetch after the first page's because the client has gone; with the
\* context cancelled before, every fetch.
FetchFailures(r) ==
    IF r.cancelled THEN {DOMAIN MainWorld}
    ELSE {{}, {r.fetchURL}, CancelledAfter(r.fetchURL)}

\* A resolveFeed that stores a child also when the fetch has failed.
FetchedStoreAlways(p, fail, out) ==
    /\ req' = [req EXCEPT ![p].pc = "inserting", ![p].feed = out.Feed,
                          ![p].failed = out.Err,
                          ![p].cancelled = (@ \/ fail = CancelledAfter(req[p].fetchURL))]
    /\ RaceOutcome(writing[req[p].tree] \ {p} # {})
    /\ writing' = [writing EXCEPT ![req[p].tree] = @ \cup {p}]

\* resolveFeed: fetchWithPaginationLimit; resolveFeed returns nil when it
\* fails and HandleSource answers 404.  With the feed fetched, the write of
\* tree.Children[cacheKey] starts.
Fetched(p, fail, out) ==
    IF out.Err
    THEN /\ req' = [req EXCEPT ![p] = [Fail(@, StatusNotFound) EXCEPT !.failed = TRUE]]
         /\ UNCHANGED <<writing, raced, crashed>>
    ELSE /\ req' = [req EXCEPT ![p].pc = "inserting", ![p].feed = out.Feed,
                               ![p].cancelled = (@ \/ fail = CancelledAfter(req[p].fetchURL))]
         /\ RaceOutcome(writing[req[p].tree] \ {p} # {})
         /\ writing' = [writing EXCEPT ![req[p].tree] = @ \cup {p}]

Fetch(p) ==
    /\ ~crashed
    /\ req[p].pc = "fetch"
    /\ \E fail \in FetchFailures(req[p]) :
          Fetched(p, fail, fetchWithPaginationLimit(MainWorld, fail, req[p].fetchURL,
                                                    feedMap[req[p].slug]))
    /\ UNCHANGED <<feedMap, entries, mu, trees>>
    /\ UNCHANGED <<urlT, crawlT, fetchT, cfgT, viewT, srch>>

\* A resolveFeed that stores the page it is about to serve.
InsertEndSliced(p) ==
    /\ ~crashed
    /\ req[p].pc = "inserting"
    /\ trees' = [trees EXCEPT ![req[p].tree].Children =
                    MapPut(@, req[p].key,
                           Leaf(Paginated(req[p].feed,
                                          getMaxEntries(feedMap[req[p].slug], DefaultMaxEntries),
                                          req[p].slug, req[p].subPath, req[p].rawQuery),
                                req[p].fetchURL))]
    /\ req' = [req EXCEPT ![p] =
                  [Serve(@, trees[req[p].tree].URL, @.feed, @.fetchURL)
                      EXCEPT !.stored = entries[req[p].slug]]]
    /\ writing' = [writing EXCEPT ![req[p].tree] = @ \ {p}]
    /\ UNCHANGED <<feedMap, entries, mu, raced, crashed>>
    /\ UNCHANGED <<urlT, crawlT, fetchT, cfgT, viewT, srch>>

\* resolveFeed: the map write done; the rest of HandleSource.
InsertEnd(p) ==
    /\ ~crashed
    /\ req[p].pc = "inserting"
    /\ trees' = [trees EXCEPT ![req[p].tree].Children =
                    MapPut(@, req[p].key, Leaf(req[p].feed, req[p].fetchURL))]
    /\ req' = [req EXCEPT ![p] =
                  [Serve(@, trees[req[p].tree].URL, @.feed, @.fetchURL)
                      EXCEPT !.stored = entries[req[p].slug]]]
    /\ writing' = [writing EXCEPT ![req[p].tree] = @ \ {p}]
    /\ UNCHANGED <<feedMap, entries, mu, raced, crashed>>
    /\ UNCHANGED <<urlT, crawlT, fetchT, cfgT, viewT, srch>>

\* r.URL.Query().Get(key): what ParseQuery could parse.
URLQueryGet(href, key) == QueryGet(ParseQuery(Parse(href).RawQuery), key)

\* chi.URLParam(r, "slug") of the routes /opds/search/{slug} and
\* /opds/download/{slug}.
SlugAfter(path, prefix) ==
    IF HasPrefix(path, prefix) /\ Len(path) = Len(prefix) + 1 THEN path[Len(path)] ELSE ""

\* cfg.Feeds, in the order of the configuration file.
CfgFeeds(fm) == SelectSeq(<<"lib", "lib2", "lib3", "lib4">>, LAMBDA sl : sl \in DOMAIN fm)

\* HandleSearch up to the call of Search: 400 without a query.
SearchBegun(p, href, query) ==
    IF query = <<>>
    THEN /\ req' = [req EXCEPT ![p] = [Fail(@, StatusBadRequest) EXCEPT !.href = href]]
         /\ UNCHANGED srch
    ELSE /\ req' = [req EXCEPT ![p].pc = "search", ![p].href = href]
         /\ srch' = [srch EXCEPT ![p] =
                [IdleSearch EXCEPT !.query = query,
                                   !.tasks = [sl \in DOMAIN feedMap |-> IdleTask]]]

SearchStart(p) ==
    /\ ~crashed
    /\ req[p].pc = "idle"
    /\ \E href \in SearchRequests : SearchBegun(p, href, URLQueryGet(href, "q"))
    /\ UNCHANGED <<feedMap, entries, mu, trees, writing, raced, crashed>>
    /\ UNCHANGED <<urlT, crawlT, fetchT, cfgT, viewT>>

\* Search, one turn of the loop over cfg.Feeds: feedCache.Get (RLock, read,
\* RUnlock) and, for a cached tree with a search URL, the go statement.
SearchGot(p, slug, e) ==
    /\ crashed' = (e = Torn)
    /\ srch' = [srch EXCEPT
          ![p].i = @ + 1,
          ![p].tasks[slug] =
              IF e \in Procs /\ trees[e].SearchURL # <<>>
              THEN [pc |-> "template", url |-> trees[e].SearchURL, found |-> <<>>,
                    base |-> <<>>]
              ELSE @]

SearchGet(p) ==
    /\ ~crashed
    /\ req[p].pc = "search"
    /\ srch[p].i <= Len(CfgFeeds(feedMap))
    /\ CanRLock(mu)
    /\ SearchGot(p, CfgFeeds(feedMap)[srch[p].i], entries[CfgFeeds(feedMap)[srch[p].i]])
    /\ UNCHANGED <<feedMap, entries, mu, trees, writing, req, raced>>
    /\ UNCHANGED <<urlT, crawlT, fetchT, cfgT, viewT>>

\* searchUpstream: fetchSearchTemplate and expandTemplate.
TemplateFetched(p, slug, t) ==
    srch' = [srch EXCEPT ![p].tasks[slug] =
                IF t.ok
                THEN [@ EXCEPT !.pc = "result", !.url = expandTemplate(t.tmpl, srch[p].query)]
                ELSE [@ EXCEPT !.pc = "failed"]]

TaskTemplate(p) ==
    /\ ~crashed
    /\ \E slug \in DOMAIN srch[p].tasks :
          /\ srch[p].tasks[slug].pc = "template"
          /\ \E fail \in {{}, {srch[p].tasks[slug].url}} :
                TemplateFetched(p, slug, fetchSearchTemplate(SearchDescs, fail,
                                                             srch[p].tasks[slug].url))
    /\ UNCHANGED <<feedMap, entries, mu, trees, writing, req, raced, crashed>>
    /\ UNCHANGED <<urlT, crawlT, fetchT, cfgT, viewT>>

\* searchUpstream: FetchFeedByURL and the tagging of the entries.
ResultFetched(p, slug, r) ==
    srch' = [srch EXCEPT ![p].tasks[slug] =
                IF r.ok
                THEN [@ EXCEPT !.pc = "lock", !.found = TagEntries(r.feed.Entries, slug)]
                ELSE [@ EXCEPT !.pc = "failed"]]

TaskResult(p) ==
    /\ ~crashed
    /\ \E slug \in DOMAIN srch[p].tasks :
          /\ srch[p].tasks[slug].pc = "result"
          /\ \E fail \in {{}, {srch[p].tasks[slug].url}} :
                ResultFetched(p, slug, fetchFeed(MainWorld, fail, srch[p].tasks[slug].url))
    /\ UNCHANGED <<feedMap, entries, mu, trees, writing, req, raced, crashed>>
    /\ UNCHANGED <<urlT, crawlT, fetchT, cfgT, viewT>>

\* A goroutine of Search that goes on to its append without waiting for the
\* mutex.
TaskLockNoWait(p) ==
    /\ ~crashed
    /\ \E slug \in DOMAIN srch[p].tasks :
          /\ srch[p].tasks[slug].pc = "lock"
          /\ srch' = [srch EXCEPT ![p].smu = slug, ![p].tasks[slug].pc = "append",
                                  ![p].tasks[slug].base = srch[p].results]
    /\ UNCHANGED <<feedMap, entries, mu, trees, writing, req, raced, crashed>>
    /\ UNCHANGED <<urlT, crawlT, fetchT, cfgT, viewT>>

\* The goroutine of Search: mu.Lock(), and append's read of results.Entries.
TaskLock(p) ==
    /\ ~crashed
    /\ srch[p].smu = ""
    /\ \E slug \in DOMAIN srch[p].tasks :
          /\ srch[p].tasks[slug].pc = "lock"
          /\ srch' = [srch EXCEPT ![p].smu = slug, ![p].tasks[slug].pc = "append",
                                  ![p].tasks[slug].base = srch[p].results]
    /\ UNCHANGED <<feedMap, entries, mu, trees, writing, req, raced, crashed>>
    /\ UNCHANGED <<urlT, crawlT, fetchT, cfgT, viewT>>

\* The goroutine of Search: the assignment of the appended slice to
\* results.Entries, mu.Unlock(), wg.Done().
TaskAppend(p) ==
    /\ ~crashed
    /\ \E slug \in DOMAIN srch[p].tasks :
          /\ srch[p].tasks[slug].pc = "append"
          /\ srch' = [srch EXCEPT ![p].smu = "", ![p].tasks[slug].pc = "done",
                                  ![p].results = srch[p].tasks[slug].base
                                                 \o srch[p].tasks[slug].found]
    /\ UNCHANGED <<feedMap, entries, mu, trees, writing, req, raced, crashed>>
    /\ UNCHANGED <<urlT, crawlT, fetchT, cfgT, viewT>>

\* A Search that returns an error when the search of one source failed.
SearchDoneFailing(p) ==
    /\ ~crashed
    /\ req[p].pc = "search"
    /\ srch[p].i > Len(CfgFeeds(feedMap))
    /\ \A slug \in DOMAIN srch[p].tasks : srch[p].tasks[slug].pc \in {"none", "failed", "done"}
    /\ req' = [req EXCEPT ![p] =
          IF \E slug \in DOMAIN srch[p].tasks : srch[p].tasks[slug].pc = "failed"
          THEN Fail(@, StatusBadGateway)
          ELSE [@ EXCEPT !.pc = "done", !.status = StatusOK,
                         !.body = SearchResults(srch[p].query, srch[p].results)]]
    /\ UNCHANGED <<feedMap, entries, mu, trees, writing, raced, crashed, srch>>
    /\ UNCHANGED <<urlT, crawlT, fetchT, cfgT, viewT>>

\* A Search that returns without wg.Wait().
SearchDoneNoWait(p) ==
    /\ ~crashed
    /\ req[p].pc = "search"
    /\ srch[p].i > Len(CfgFeeds(feedMap))
    /\ req' = [req EXCEPT ![p].pc = "done", ![p].status = StatusOK,
                          ![p].body = SearchResults(srch[p].query, srch[p].results)]
    /\ UNCHANGED <<feedMap, entries, mu, trees, writing, raced, crashed, srch>>
    /\ UNCHANGED <<urlT, crawlT, fetchT, cfgT, viewT>>

\* Search: wg.Wait() and the return; HandleSearch writes the document as
\* Search returned it.
SearchDone(p) ==
    /\ ~crashed
    /\ req[p].pc = "search"
    /\ srch[p].i > Len(CfgFeeds(feedMap))
    /\ \A slug \in DOMAIN srch[p].tasks : srch[p].tasks[slug].pc \in {"none", "failed", "done"}
    /\ req' = [req EXCEPT ![p].pc = "done", ![p].status = StatusOK,
                          ![p].body = SearchResults(srch[p].query, srch[p].results)]
    /\ UNCHANGED <<feedMap, entries, mu, trees, writing, raced, crashed, srch>>
    /\ UNCHANGED <<urlT, crawlT, fetchT, cfgT, viewT>>

\* HandleSourceSearch up to the call of SearchSource: 404 for a slug that is
\* not configured, 400 without the upstream parameter, the generated search
\* description (no feed document) without a query.
SourceSearchBegun(p, href, slug, upstream, query) ==
    /\ req' = [req EXCEPT ![p] =
          IF slug \notin DOMAIN feedMap THEN [Fail(@, StatusNotFound) EXCEPT !.href = href]
          ELSE IF upstream = <<>> THEN [Fail(@, StatusBadRequest) EXCEPT !.href = href]
          ELSE IF query = <<>>
          THEN [@ EXCEPT !.pc = "done", !.status = StatusOK, !.href = href, !.slug = slug]
          ELSE [@ EXCEPT !.pc = "searchSource", !.href = href, !.slug = slug]]
    /\ srch' = [srch EXCEPT ![p].query = query, ![p].url = upstream]

SourceSearchStart(p) ==
    /\ ~crashed
    /\ req[p].pc = "idle"
    /\ \E href \in SourceSearchRequests :
          SourceSearchBegun(p, href, SlugAfter(Parse(href).Path, SearchPrefix),
                            URLQueryGet(href, "upstream"), URLQueryGet(href, "q"))
    /\ UNCHANGED <<feedMap, entries, mu, trees, writing, raced, crashed>>
    /\ UNCHANGED <<urlT, crawlT, fetchT, cfgT, viewT>>

\* HandleSourceSearch: SearchSource, 502 when it fails, else the rewritten
\* result.
SourceSearched(p, rootURL, out) ==
    req' = [req EXCEPT ![p] =
        IF out.Err THEN Fail(@, StatusBadGateway)
        ELSE [@ EXCEPT !.pc = "done", !.status = StatusOK,
                       !.body = rewriteFeedLinks(out.Feed, req[p].slug, rootURL, rootURL,
                                                 <<>>)]]

SourceSearchFetch(p) ==
    /\ ~crashed
    /\ req[p].pc = "searchSource"
    /\ \E fail \in {{}, {srch[p].url}} :
          SourceSearched(p, feedMap[req[p].slug].URL,
                         SearchSource(MainWorld, SearchDescs, fail, srch[p].url,
                                      srch[p].query))
    /\ UNCHANGED <<feedMap, entries, mu, trees, writing, raced, crashed, srch>>
    /\ UNCHANGED <<urlT, crawlT, fetchT, cfgT, viewT>>

\* A HandleDownload that asks for a url parameter and fetches whatever it is.
DownloadBegunUnchecked(p, href, slug, dlURL) ==
    /\ req' = [req EXCEPT ![p] =
          IF slug \notin DOMAIN feedMap THEN [Fail(@, StatusNotFound) EXCEPT !.href = href]
          ELSE IF dlURL = <<>>
          THEN [Fail(@, StatusBadRequest) EXCEPT !.href = href]
          ELSE [@ EXCEPT !.pc = "download", !.href = href, !.slug = slug]]
    /\ srch' = [srch EXCEPT ![p].url = dlURL]

\* HandleDownload up to FetchRaw: 404, and 400 for a missing url parameter,
\* one that does not parse or one that is not http(s).
DownloadBegun(p, href, slug, dlURL) ==
    /\ req' = [req EXCEPT ![p] =
          IF slug \notin DOMAIN feedMap THEN [Fail(@, StatusNotFound) EXCEPT !.href = href]
          ELSE IF dlURL = <<>> \/ ParseErr(dlURL) \/ Parse(dlURL).Scheme \notin SchemeAtoms
          THEN [Fail(@, StatusBadRequest) EXCEPT !.href = href]
          ELSE [@ EXCEPT !.pc = "download", !.href = href, !.slug = slug]]
    /\ srch' = [srch EXCEPT ![p].url = dlURL]

DownloadStart(p) ==
    /\ ~crashed
    /\ req[p].pc = "idle"
    /\ \E href \in DownloadRequests :
          DownloadBegun(p, href, SlugAfter(Parse(href).Path, DownloadPrefix),
                        URLQueryGet(href, "url"))
    /\ UNCHANGED <<feedMap, entries, mu, trees, writing, raced, crashed>>
    /\ UNCHANGED <<urlT, crawlT, fetchT, cfgT, viewT>>

\* Crawler.FetchRaw: the file is there and the fetch does not fail.
FetchRaw(files, fail, rawURL) == rawURL \in files /\ rawURL \notin fail

\* HandleDownload: FetchRaw, 502 when it fails, else the file.
DownloadFetch(p) ==
    /\ ~crashed
    /\ req[p].pc = "download"
    /\ \E fail \in {{}, {srch[p].url}} :
          req' = [req EXCEPT ![p] =
                    Fail(@, IF FetchRaw(Files, fail, srch[p].url)
                            THEN StatusOK ELSE StatusBadGateway)]
    /\ UNCHANGED <<feedMap, entries, mu, trees, writing, raced, crashed, srch>>
    /\ UNCHANGED <<urlT, crawlT, fetchT, cfgT, viewT>>

Next ==
    \E p \in Procs :
        \/ Request(p) \/ GetRead(p) \/ ColdCrawl(p) \/ PutLock(p) \/ PutUnlock(p)
        \/ Lookup(p) \/ Fetch(p) \/ InsertEnd(p)
        \/ SearchStart(p) \/ SearchGet(p) \/ TaskTemplate(p) \/ TaskResult(p)
        \/ TaskLock(p) \/ TaskAppend(p) \/ SearchDone(p)
        \/ SourceSearchStart(p) \/ SourceSearchFetch(p)
        \/ DownloadStart(p) \/ DownloadFetch(p)

Spec == Init /\ [][Next]_vars

(***************************************************************************)
(* SpecSearch: the merged search over four configured sources, two of     *)
(* which have a cached tree.                                               *)
(***************************************************************************)
\* The sources of the configuration, with their root catalogs.
SearchSources ==
    (Slug :> RootCat) @@ ("lib2" :> RootLib2) @@ ("lib3" :> RootLib3) @@ ("lib4" :> RootLib4)

SourceCfg(slug) ==
    [URL |-> SearchSources[slug], PollDepth |-> 0, MaxEntries |-> 0, MaxPaginate |-> 0]

\* Two sources a and b were crawled and cached before the search.
CachedSources(a, b) ==
    /\ entries = [slug \in DOMAIN SearchSources |->
                     IF slug = a THEN 1 ELSE IF slug = b THEN 2 ELSE NoEntry]
    /\ trees = [p \in Procs |->
                   Crawl(MainWorld, {}, SourceCfg(IF p = 1 THEN a ELSE b)).Tree]

InitSearch ==
    /\ urlT = Idle
    /\ cfgT = Idle
    /\ viewT = Idle
    /\ crawlT = Idle
    /\ fetchT = Idle
    /\ feedMap = [slug \in DOMAIN SearchSources |-> SourceCfg(slug)]
    /\ \E a, b \in DOMAIN SearchSources : a # b /\ CachedSources(a, b)
    /\ mu = [writer |-> 0, readers |-> {}]
    /\ writing = [p \in Procs |-> {}]
    /\ req = [p \in Procs |-> IdleReq]
    /\ raced = FALSE
    /\ crashed = FALSE
    /\ srch = [p \in Procs |-> IdleSearch]

NextSearch ==
    \E p \in Procs :
        \/ SearchStart(p) \/ SearchGet(p) \/ TaskTemplate(p) \/ TaskResult(p)
        \/ TaskLock(p) \/ TaskAppend(p) \/ SearchDone(p)

SpecSearch == InitSearch /\ [][NextSearch]_vars

\* The requests that follow a rewritten link of a served document.
FromLink(r) == r.want # NoStr

\* C2: a request for the path the rewriter emitted for a sub-catalog link
\* makes the resolver fetch, and the gateway serve, exactly the link's
\* resolved upstream URL.
C2_ResolverInvertsRewriter ==
    \A p \in Procs :
        FromLink(req[p]) =>
            /\ req[p].fetchURL # NoStr => req[p].fetchURL = req[p].want
            /\ req[p].status = StatusOK => req[p].feedURL = req[p].want

\* The requests that follow a link to another host.
CrossHost(r) == FromLink(r) /\ Parse(r.want).Host # Parse(RootCat).Host

C5_ConcurrentInsertSafe ==
    /\ ~raced
    /\ ~crashed
    /\ \A p, q \in Procs :
          (/\ p # q
           /\ req[p].status = StatusOK /\ req[q].status = StatusOK
           /\ req[p].tree = req[q].tree
           /\ req[p].key # NoStr /\ req[p].key = req[q].key)
              => req[p].key \in DOMAIN trees[req[p].tree].Children

\* C6: a Get never returns an entry whose write is under way: it returns no
\* entry or a tree that a finished Put stored, and a stored tree is one whose
\* crawl has finished.
C6_AtomicRefresh ==
    /\ \A p \in Procs :
          /\ req[p].got \in {NoEntry} \cup Procs
          /\ req[p].got \in Procs => trees[req[p].got] # NoTree
    /\ mu.writer = 0 => entries[Slug] # Torn
    /\ entries[Slug] \in Procs => trees[entries[Slug]] # NoTree

\* A Get returned the tree another goroutine's Put stored, after it had
\* asked for the lock while the other goroutine crawled.
C6_Witness ==
    \E p, q \in Procs :
        /\ p # q
        /\ req[p].got = q
        /\ entries[Slug] = q
        /\ req[q].pc = "resolve"

\* C10: a request during which an upstream fetch failed (the cold-start
\* crawl, the ext fetch, the on-demand fetch) is answered 502.
C10_UpstreamFailure502 ==
    \A p \in Procs :
        (req[p].pc = "done" /\ req[p].failed) => req[p].status = StatusBadGateway

C12_CancellationCachesNothingPartial ==
    [][\A p \in Procs :
          req[p].cancelled =>
              /\ (req[p].pc = "lock" /\ req'[p].pc = "write")
                    => trees[p] = Crawl(MainWorld, {}, feedMap[req[p].slug]).Tree
              /\ (req[p].pc = "inserting" /\ req'[p].pc = "done")
                    => req[p].feed = fetchWithPaginationLimit(MainWorld, {}, req[p].fetchURL,
                                                              feedMap[req[p].slug]).Feed]_vars

\* C13: neither the URL a browse request fetches from upstream nor the key
\* it stores the fetched child under carries the parameter offset or limit.
C13_PaginationParamsStayLocal ==
    \A p \in Procs :
        /\ req[p].fetchURL # NoStr
              => /\ ~Contains(req[p].fetchURL, <<"offset">>)
                 /\ ~Contains(req[p].fetchURL, <<"limit">>)
        /\ req[p].key # NoStr
              => /\ ~Contains(req[p].key, <<"offset">>)
                 /\ ~Contains(req[p].key, <<"limit">>)

\* The hrefs of a served document: the links of the feed and of its entries.
ServedHrefs(feed) ==
    {feed.Links[i].Href : i \in 1..Len(feed.Links)}
        \cup UNION {{feed.Entries[i].Links[j].Href : j \in 1..Len(feed.Entries[i].Links)} :
                        i \in 1..Len(feed.Entries)}

\* C14: no link of a document served by browse, by the search of one source
\* or by the merged search is an http(s) URL of an upstream host.
C14_ServedDocumentsProxied ==
    \A p \in Procs :
        req[p].pc = "done" =>
            \A href \in ServedHrefs(req[p].body) : ~(Len(href) >= 1 /\ href[1] \in SchemeAtoms)

\* The documents below the root that Crawl fetches for a source when no
\* fetch fails.
PreCrawled(slug) == NodeURLs(Crawl(MainWorld, {}, feedMap[slug]).Tree)

\* The request follows a link to a document the crawl fetched, and the tree
\* it resolves in holds every document of that crawl.
FollowsPreCrawled(r) ==
    /\ FromLink(r)
    /\ r.tree \in Procs
    /\ r.want \in PreCrawled(r.slug)
    /\ PreCrawled(r.slug) \subseteq NodeURLs(trees[r.tree])

\* C15: a request for the path the rewriter emits for a link to a document
\* the cached crawl fetched is served that document from the tree, with no
\* upstream fetch.
C15_PreCrawledAreCacheHits ==
    \A p \in Procs :
        FollowsPreCrawled(req[p]) =>
            /\ req[p].fetchURL = NoStr
            /\ req[p].status = StatusOK => req[p].feedURL = req[p].want

\* The positions of the log, after the root, whose fetch succeeded.
FetchedAt(w, fail, log) == {i \in 2..Len(log) : fetchFeed(w, fail, log[i]).ok}

\* C16: within one Crawl no two fetches of sub-catalogs have the same path
\* relative to the source root.
C16_EachPathFetchedOnce ==
    crawlT.phase = "done" =>
        \A i, j \in FetchedAt(CrawlWorld(crawlT.world), crawlT.fail, crawlT.out.Log) :
            i # j => relativePath(crawlT.cfg.URL, crawlT.out.Log[i])
                        # relativePath(crawlT.cfg.URL, crawlT.out.Log[j])

\* What the upstream search of a cached source returns for a query.
UpstreamFound(slug, query) ==
    IF entries[slug] \notin Procs \/ trees[entries[slug]].SearchURL = <<>> THEN <<>>
    ELSE SearchSource(MainWorld, SearchDescs, {}, trees[entries[slug]].SearchURL,
                      query).Feed.Entries

\* The sources whose upstream search returned an entry with this ID.
ReturnedBy(id, query) ==
    {slug \in DOMAIN feedMap :
        \E i \in 1..Len(UpstreamFound(slug, query)) : UpstreamFound(slug, query)[i].ID = id}

\* The terms of the categories of an entry that carry the source scheme,
\* one per category.
SourceTerms(e) ==
    [k \in {c \in 1..Len(e.Categories) : e.Categories[c].Scheme = SourceScheme}
        |-> e.Categories[k].Term]

\* C17: every entry of the merged document that Search returns has exactly
\* one category with the source scheme, and its term is the slug of the
\* source whose upstream search returned the entry.
C17_SearchTagging ==
    \A p \in Procs :
        (req[p].pc = "done" /\ req[p].href \in SearchRequests) =>
            \A i \in 1..Len(req[p].body.Entries) :
                /\ Cardinality(DOMAIN SourceTerms(req[p].body.Entries[i])) = 1
                /\ \A k \in DOMAIN SourceTerms(req[p].body.Entries[i]) :
                      SourceTerms(req[p].body.Entries[i])[k]
                          \in ReturnedBy(req[p].body.Entries[i].ID, srch[p].query)

\* The positions of an entry in a sequence of entries.
PositionsOf(e, es) == {i \in 1..Len(es) : es[i] = e}

\* The search of one source, as the merged document shows it: a source
\* without a cached search URL was not asked; a search that succeeded has
\* each of its entries, tagged, once in the document; one that failed has
\* none of the entries upstream holds for it.
Isolated(task, slug, query, merged) ==
    /\ task.pc \in {"none", "done", "failed"}
    /\ task.pc = "none"
          <=> (entries[slug] \notin Procs \/ trees[entries[slug]].SearchURL = <<>>)
    /\ task.pc = "done" =>
          \A i \in 1..Len(UpstreamFound(slug, query)) :
              Cardinality(PositionsOf(TagEntries(UpstreamFound(slug, query), slug)[i],
                                      merged)) = 1
    /\ task.pc = "failed" =>
          \A i \in 1..Len(merged) : slug \notin ReturnedBy(merged[i].ID, query)

\* C18: whichever searches of single sources fail, Search returns a
\* document and no error; the document holds the entries of every source
\* whose search succeeded and none of a source whose search failed.
C18_SearchFailureIsolation ==
    \A p \in Procs :
        (req[p].pc = "done" /\ req[p].href \in SearchRequests
                           /\ URLQueryGet(req[p].href, "q") # <<>>) =>
            /\ req[p].status = StatusOK
            /\ \A slug \in DOMAIN feedMap :
                  Isolated(srch[p].tasks[slug], slug, srch[p].query, req[p].body.Entries)
            /\ \A i \in 1..Len(req[p].body.Entries) :
                  \E slug \in ReturnedBy(req[p].body.Entries[i].ID, srch[p].query) :
                      srch[p].tasks[slug].pc = "done"

\* The search of lib failed, the search of lib2 succeeded, and the merged
\* document holds the two entries of lib2.
C18_Witness ==
    \E p \in Procs :
        /\ req[p].pc = "done"
        /\ req[p].status = StatusOK
        /\ DOMAIN srch[p].tasks = DOMAIN feedMap
        /\ srch[p].tasks[Slug].pc = "failed"
        /\ srch[p].tasks["lib2"].pc = "done"
        /\ Len(req[p].body.Entries) = 2

\* The goroutine of request p is about to fetch from upstream: the crawl,
\* the on-demand fetch, the download, the search of one source.
Fetching(p) == req[p].pc \in {"crawl", "fetch", "download", "searchSource"}

\* The search goroutine of p for a source is about to fetch the search
\* description or the search result.
TaskFetching(p, slug) == srch[p].tasks[slug].pc \in {"template", "result"}

\* C19: a goroutine that is about to fetch from upstream holds neither the
\* read nor the write lock of the feed cache, and a search goroutine that
\* is about to fetch does not hold the mutex of the search results.
C19_NoLockAcrossFetch ==
    \A p \in Procs :
        /\ (Fetching(p) \/ \E slug \in DOMAIN srch[p].tasks : TaskFetching(p, slug))
              => (p \notin mu.readers /\ mu.writer # p)
        /\ \A slug \in DOMAIN srch[p].tasks : TaskFetching(p, slug) => srch[p].smu # slug

\* One request is about to fetch from upstream while the other holds the
\* write lock of the feed cache.
C19_Witness ==
    \E p, q \in Procs :
        /\ p # q
        /\ Fetching(p)
        /\ mu.writer = q

\* Two URLs with the same scheme, host and path, whatever their query
\* strings and with or without a trailing slash.
SamePlace(a, b) ==
    /\ Parse(a).Scheme = Parse(b).Scheme
    /\ Parse(a).Host = Parse(b).Host
    /\ TrimSuffix(EscapedPath(Parse(a)), <<"/">>) = TrimSuffix(EscapedPath(Parse(b)), <<"/">>)

\* C20: the base URL HandleSource rewrites a served document with is the
\* URL the document was fetched from, up to query string and trailing
\* slash, and the root it strips prefixes with is the URL of the tree.
C20_RewriteBaseIsDocumentURL ==
    \A p \in Procs :
        (req[p].status = StatusOK /\ req[p].feedURL # NoStr) =>
            /\ SamePlace(req[p].base, req[p].feedURL)
            /\ req[p].body = rewriteFeedLinks(req[p].feed, req[p].slug, req[p].base,
                                              trees[req[p].tree].URL, <<>>)

\* The documents of a tree: the node's and those of the nodes below it.
RECURSIVE NodeFeeds(_)
NodeFeeds(t) == {t.Feed} \cup UNION {NodeFeeds(t.Children[k]) : k \in DOMAIN t.Children}

\* No entry of the document has a link with an acquisition relation.
NoAcquisitionEntry(feed) ==
    \A i \in 1..Len(feed.Entries) :
        \A j \in 1..Len(feed.Entries[i].Links) :
            feed.Entries[i].Links[j].Rel
                \notin {"http://opds-spec.org/acquisition",
                        "http://opds-spec.org/acquisition/open-access",
                        "http://opds-spec.org/acquisition/borrow",
                        "http://opds-spec.org/acquisition/buy",
                        "http://opds-spec.org/acquisition/sample",
                        "http://opds-spec.org/acquisition/subscribe"}

NextOf(w, pageURL) == crawlerResolveURL(pageURL, NextLink(w[pageURL]).Href)

\* C28: every URL FetchWithLimit requests after the first, and the next URL
\* it returns at the page limit, is the next href of the page fetched
\* before it, resolved against the URL that page was fetched from.
C28_NextResolvedAgainstOwnPage ==
    fetchT.phase = "done" =>
        /\ \A i \in 1..(Len(fetchT.out.Fetched) - 1) :
              fetchT.out.Fetched[i + 1]
                  = NextOf(PageWorld(fetchT.style, fetchT.n), fetchT.out.Fetched[i])
        /\ fetchT.out.HasMore =>
              fetchT.out.NextURL
                  = NextOf(PageWorld(fetchT.style, fetchT.n),
                           fetchT.out.Fetched[Len(fetchT.out.Fetched)])

\* The path of the target neither is the root path, up to a trailing slash,
\* nor continues it behind a slash.
Diverges(rootPath, path) ==
    /\ TrimSuffix(path, <<"/">>) # TrimSuffix(rootPath, <<"/">>)
    /\ ~(/\ Len(path) > Len(TrimSuffix(rootPath, <<"/">>))
         /\ SubSeq(path, 1, Len(TrimSuffix(rootPath, <<"/">>))) = TrimSuffix(rootPath, <<"/">>)
         /\ path[Len(TrimSuffix(rootPath, <<"/">>)) + 1] = "/")

LinkClass(l, resolved) ==
    IF isAcquisitionRel(l.Rel) \/ IsImageRel(l.Rel) THEN "acquisition"
    ELSE IF l.Rel = RelSearch THEN "search"
    ELSE IF IsNavigationRel(l.Rel) \/ isOPDSFeedType(l.Type) THEN "source"
    ELSE IF resolved # <<>> /\ resolved[1] \in {"http://", "https://"} THEN "other"
    ELSE "none"

\* The href the clause emits for source s1.
EmittedFor(class, root, resolved) ==
    CASE class \in {"acquisition", "other"} ->
            <<"/", "opds", "/", "download", "/", "s1", "?", "url", "=">> \o QueryEscape(resolved)
      [] class = "search" ->
            <<"/", "opds", "/", "search", "/", "s1", "?", "upstream", "=">>
                \o QueryEscape(resolved)
      [] class = "source" ->
            <<"/", "opds", "/", "source", "/", "s1", "/">> \o makeRelativePath(root, resolved)
      [] class = "none" -> resolved

MaxFeeds == 2

\* Names with characters of each class of FeedConfig.Slug: lower case,
\* upper case, digits, separators (alone, doubled, leading, trailing) and
\* characters that are dropped.
Names ==
    {<<>>, <<"a">>, <<"A">>, <<"b">>, <<"a", "1">>,
     <<"a", "!">>, <<"!">>, <<"-">>, <<"a", "-">>, <<"-", "a">>,
     <<"a", " ", "b">>, <<"a", "-", "b">>, <<"a", "_", "-", "b">>, <<"a", "!", "b">>,
     <<"a", "b">>}

\* The feeds of the drawn configurations: every name with a URL, and one
\* feed without a URL.
FeedChoices ==
    {[Name |-> n, URL |-> RootCat] : n \in Names} \cup {[Name |-> <<"a">>, URL |-> <<>>]}

\* FeedConfig.Slug, one character of the loop.
SlugStep(slug, c) ==
    IF c \in {"a", "b", "1"} THEN Append(slug, c)
    ELSE IF c = "A" THEN Append(slug, "a")
    ELSE IF c \in {" ", "-", "_"}
    THEN IF slug = <<>> \/ slug[Len(slug)] # "-" THEN Append(slug, "-") ELSE slug
    ELSE slug

RECURSIVE SlugLoop(_, _)
SlugLoop(name, slug) ==
    IF name = <<>> THEN slug ELSE SlugLoop(Tail(name), SlugStep(slug, Head(name)))

\* FeedConfig.Slug
SlugOf(name) == TrimSuffix(SlugLoop(name, <<>>), <<"-">>)

\* A validation that does not look for duplicate slugs.
RECURSIVE validateFeedsNoDuplicateCheck(_, _, _)
validateFeedsNoDuplicateCheck(feeds, i, slugs) ==
    IF i > Len(feeds) THEN TRUE
    ELSE IF feeds[i].Name = <<>> THEN FALSE
    ELSE IF feeds[i].URL = <<>> THEN FALSE
    ELSE validateFeedsNoDuplicateCheck(feeds, i + 1, slugs \cup {SlugOf(feeds[i].Name)})

\* Config.validate, the loop over c.Feeds: TRUE for a nil error.
RECURSIVE validateFeeds(_, _, _)
validateFeeds(feeds, i, slugs) ==
    IF i > Len(feeds) THEN TRUE
    ELSE IF feeds[i].Name = <<>> THEN FALSE
    ELSE IF feeds[i].URL = <<>> THEN FALSE
    ELSE IF SlugOf(feeds[i].Name) \in slugs THEN FALSE
    ELSE validateFeeds(feeds, i + 1, slugs \cup {SlugOf(feeds[i].Name)})

\* Config.validate
validate(feeds) == Len(feeds) # 0 /\ validateFeeds(feeds, 1, {})

\* NewHandler: fm[f.Slug()] = f for each feed in turn.
RECURSIVE NewHandlerMap(_, _)
NewHandlerMap(feeds, fm) ==
    IF feeds = <<>> THEN fm
    ELSE NewHandlerMap(Tail(feeds), MapPut(fm, SlugOf(Head(feeds).Name), Head(feeds)))

InitConfig ==
    /\ urlT = Idle
    /\ crawlT = Idle
    /\ fetchT = Idle
    /\ viewT = Idle
    /\ ServerInit({0})
    /\ \E n \in 0..MaxFeeds :
          \E feeds \in [1..n -> FeedChoices] :
             cfgT = [phase |-> "start", feeds |-> feeds, ok |-> FALSE, fm |-> EmptyMap]

\* Load: validate, and the error it returns.
Validate ==
    /\ cfgT.phase = "start"
    /\ cfgT' = [cfgT EXCEPT !.phase = IF validate(cfgT.feeds) THEN "valid" ELSE "rejected",
                            !.ok = validate(cfgT.feeds)]
    /\ UNCHANGED <<urlT, crawlT, fetchT, viewT>>
    /\ UNCHANGED serverVars

\* NewHandler on a configuration Load returned.
NewHandler ==
    /\ cfgT.phase = "valid"
    /\ cfgT' = [cfgT EXCEPT !.phase = "serving", !.fm = NewHandlerMap(cfgT.feeds, EmptyMap)]
    /\ UNCHANGED <<urlT, crawlT, fetchT, viewT>>
    /\ UNCHANGED serverVars

NextConfig == Validate \/ NewHandler

SpecConfig == InitConfig /\ [][NextConfig]_vars

\* C23: validation rejects a configuration in which two sources have the
\* same slug; in an accepted one no two sources have the same slug, and the
\* slug table of the handler has one entry for each source, its own.
C23_SlugsUnique ==
    /\ (/\ cfgT.phase # "start"
        /\ \E i, j \in 1..Len(cfgT.feeds) :
              i # j /\ SlugOf(cfgT.feeds[i].Name) = SlugOf(cfgT.feeds[j].Name))
          => cfgT.phase = "rejected"
    /\ cfgT.phase = "serving" =>
          /\ Cardinality(DOMAIN cfgT.fm) = Len(cfgT.feeds)
          /\ \A i \in 1..Len(cfgT.feeds) :
                cfgT.fm[SlugOf(cfgT.feeds[i].Name)] = cfgT.feeds[i]

\* A configuration of two sources with names and URLs, whose names differ
\* and give the same slug, was rejected.
C23_Witness ==
    /\ cfgT.phase = "rejected"
    /\ Len(cfgT.feeds) = 2
    /\ cfgT.feeds[1] = [Name |-> <<"a", "!">>, URL |-> RootCat]
    /\ cfgT.feeds[2] = [Name |-> <<"A">>, URL |-> RootCat]

(***************************************************************************)
(* SpecCache: a FeedCache of config/config.go alone.  The maps are objects *)
(* of a heap, so that a map handed out by All and the map of the cache can *)
(* be told apart or be the same object.                                    *)
(***************************************************************************)
MaxOps == 5

CacheSlugs == {"a", "b"}

CacheTrees == {"t1", "t2"}

\* fc.entries[slug] of the map object m: the pointer stored there, or NoEntry.
CacheLookup(m, slug) == IF slug \in DOMAIN m THEN m[slug] ELSE NoEntry

\* delete(m, slug)
MapDelete(m, slug) == [x \in (DOMAIN m) \ {slug} |-> m[x]]

InitCache ==
    /\ urlT = Idle
    /\ crawlT = Idle
    /\ fetchT = Idle
    /\ cfgT = Idle
    /\ ServerInit({0})
    /\ viewT = [phase |-> "cache", maps |-> <<EmptyMap>>, fc |-> 1, views |-> {},
                last |-> [op |-> "NewFeedCache", slug |-> "", got |-> NoEntry], n |-> 0]

\* Put: under the write lock, fc.entries[slug] = &CachedFeed{Tree, UpdatedAt}.
CachePut(slug, tree) ==
    /\ viewT.phase = "cache"
    /\ viewT.n < MaxOps
    /\ viewT' = [viewT EXCEPT
                   !.maps[viewT.fc] = MapPut(@, slug, [Tree |-> tree, UpdatedAt |-> viewT.n + 1]),
                   !.last = [op |-> "Put", slug |-> slug, got |-> NoEntry],
                   !.n = @ + 1]
    /\ UNCHANGED <<urlT, crawlT, fetchT, cfgT>>
    /\ UNCHANGED serverVars

\* Get: under the read lock, the pointer stored for the slug.
CacheGet(slug) ==
    /\ viewT.phase = "cache"
    /\ viewT.n < MaxOps
    /\ viewT' = [viewT EXCEPT
                   !.last = [op |-> "Get", slug |-> slug,
                             got |-> CacheLookup(viewT.maps[viewT.fc], slug)],
                   !.n = @ + 1]
    /\ UNCHANGED <<urlT, crawlT, fetchT, cfgT>>
    /\ UNCHANGED serverVars

\* All returning fc.entries itself.
CacheAllAliased ==
    /\ viewT.phase = "cache"
    /\ viewT.n < MaxOps
    /\ viewT' = [viewT EXCEPT
                   !.views = @ \cup {viewT.fc},
                   !.last = [op |-> "All", slug |-> "", got |-> viewT.fc],
                   !.n = @ + 1]
    /\ UNCHANGED <<urlT, crawlT, fetchT, cfgT>>
    /\ UNCHANGED serverVars

\* All: under the read lock, a new map filled from fc.entries and returned.
CacheAll ==
    /\ viewT.phase = "cache"
    /\ viewT.n < MaxOps
    /\ viewT' = [viewT EXCEPT
                   !.maps = Append(@, viewT.maps[viewT.fc]),
                   !.views = @ \cup {Len(viewT.maps) + 1},
                   !.last = [op |-> "All", slug |-> "", got |-> Len(viewT.maps) + 1],
                   !.n = @ + 1]
    /\ UNCHANGED <<urlT, crawlT, fetchT, cfgT>>
    /\ UNCHANGED serverVars

\* Remove: under the write lock, delete(fc.entries, slug).
CacheRemove(slug) ==
    /\ viewT.phase = "cache"
    /\ viewT.n < MaxOps
    /\ viewT' = [viewT EXCEPT
                   !.maps[viewT.fc] = MapDelete(@, slug),
                   !.last = [op |-> "Remove", slug |-> slug, got |-> NoEntry],
                   !.n = @ + 1]
    /\ UNCHANGED <<urlT, crawlT, fetchT, cfgT>>
    /\ UNCHANGED serverVars

CachePuts == \E slug \in CacheSlugs, tree \in CacheTrees : CachePut(slug, tree)

CacheGets == \E slug \in CacheSlugs : CacheGet(slug)

CacheRemoves == \E slug \in CacheSlugs : CacheRemove(slug)

NextCache == CachePuts \/ CacheGets \/ CacheAll \/ CacheRemoves

SpecCache == InitCache /\ [][NextCache]_vars

\* C22: the map All returns holds what the cache held when All returned,
\* and no later operation on the cache changes a map All has returned; a
\* Put or Remove of one slug leaves the entry of every other slug as it was.
C22_AllIsSnapshotAndPutRemoveFrame ==
    [][/\ \A v \in viewT.views : viewT'.maps[v] = viewT.maps[v]
       /\ viewT'.last.op = "All" =>
             viewT'.maps[viewT'.last.got] = viewT.maps[viewT.fc]
       /\ viewT'.last.op \in {"Put", "Remove"} =>
             \A b \in CacheSlugs \ {viewT'.last.slug} :
                CacheLookup(viewT'.maps[viewT'.fc], b) = CacheLookup(viewT.maps[viewT.fc], b)]_vars

\* A map All returned while both slugs were stored still holds both, after
\* one of them was stored again and the other removed.
C22_Witness ==
    /\ viewT.phase = "cache"
    /\ viewT.last.op = "Remove"
    /\ \E v \in viewT.views :
          /\ DOMAIN viewT.maps[v] = CacheSlugs
          /\ DOMAIN viewT.maps[viewT.fc] # CacheSlugs
          /\ \E b \in CacheSlugs :
                /\ b \in DOMAIN viewT.maps[viewT.fc]
                /\ viewT.maps[viewT.fc][b] # viewT.maps[v][b]

\* The url parameter of a download request is missing, does not parse or
\* has a scheme other than http(s).
NotDownloadable(dlURL) ==
    \/ dlURL = <<>>
    \/ ParseErr(dlURL)
    \/ ~(Len(dlURL) >= 1 /\ dlURL[1] \in SchemeAtoms)

\* C24: a download request whose url parameter is missing, unparsable or
\* not http(s) is answered with a 4xx status and never reaches FetchRaw.
C24_DownloadSchemeGuard ==
    \A p \in Procs :
        (/\ req[p].href \in DownloadRequests
         /\ NotDownloadable(URLQueryGet(req[p].href, "url")))
           => /\ req[p].pc = "done"
              /\ req[p].status \in 400..499

\* One download request for a mailto: address and one for an https address
\* that does not parse were both answered 400.
C24_Witness ==
    /\ req[1].pc = "done" /\ req[1].status = StatusBadRequest
    /\ URLQueryGet(req[1].href, "url") = <<"mailto:", "x">>
    /\ req[2].pc = "done" /\ req[2].status = StatusBadRequest
    /\ URLQueryGet(req[2].href, "url") = RootCat \o <<"/", "%zz">>

(***************************************************************************)
(* SpecPage: the gateway serving a source with a page size and a page      *)
(* limit to one client, one request after the other; the client asks for   *)
(* a document or follows the next link of the document it got.             *)
(* SpecPersist: requests for one sub-catalog on two goroutines, a later    *)
(* request taking the slot of one that is over.                            *)
(***************************************************************************)
MaxRequests == 3

\* The requests a client starts with: the source root, the sub-catalog
\* books, whose upstream has a second page, and the sub-catalog list with
\* and without the gateway's pagination parameters.
PageRequests ==
    {[href |-> SourcePrefix \o <<Slug, "/">>, want |-> NoStr],
     FollowLink(RootCat, MainHrefs.books),
     FollowLink(RootCat, MainHrefs.list),
     [href |-> SourcePrefix \o <<Slug, "/", "list", "?">> \o MainHrefs.pagedQuery,
      want |-> NoStr]}

\* The request of a client that follows the next link of the document the
\* request r was answered with.
NextRequests(r) ==
    IF r.pc = "done" /\ r.status = StatusOK /\ NextLink(r.body) # NoLink
    THEN {[href |-> NextLink(r.body).Href, want |-> NoStr]}
    ELSE {}

EntryIDs(feed) == {feed.Entries[i].ID : i \in 1..Len(feed.Entries)}

\* The children that requests which are over have fetched and inserted:
\* sub-path and cleaned query, and the tree fc.entries held at the insert.
Inserted ==
    {[subPath    |-> ResolveKey(req[q].subPath, req[q].rawQuery).subPath,
      cleanQuery |-> ResolveKey(req[q].subPath, req[q].rawQuery).cleanQuery,
      cache      |-> req[q].stored] :
        q \in {q \in Procs : /\ req[q].pc = "done"
                             /\ req[q].status = StatusOK
                             /\ req[q].key # NoStr}}

RECURSIVE RequestsOf(_)
RequestsOf(ps) ==
    IF ps = {} THEN 0
    ELSE LET p == CHOOSE q \in ps : TRUE IN req[p].n + RequestsOf(ps \ {p})

InitPage ==
    /\ urlT = Idle
    /\ cfgT = Idle
    /\ viewT = Idle
    /\ crawlT = Idle
    /\ fetchT = Idle
    /\ ServerInitWith({0}, {0, 2}, {0, 1})

\* HandleSource up to FeedCache.Get, for a request of the set fresh or one
\* that follows the next link of the slot's last document.
RequestFrom(p, fresh) ==
    /\ RequestsOf(Procs) < MaxRequests
    /\ \/ \E c \in fresh :
             RoutedWith(p, [IdleReq EXCEPT !.n = req[p].n + 1, !.expect = Inserted,
                                           !.start = c.href],
                        c, RouteSource(c.href))
       \/ \E c \in NextRequests(req[p]) :
             RoutedWith(p, [IdleReq EXCEPT !.n = req[p].n + 1, !.expect = Inserted,
                                           !.start = req[p].start,
                                           !.seen = req[p].seen \cup EntryIDs(req[p].body)],
                        c, RouteSource(c.href))

\* A request of the one client, in a slot that is free.
RequestPage(p) ==
    /\ ~crashed
    /\ req[p].pc \in {"idle", "done"}
    /\ RequestFrom(p, PageRequests)
    /\ UNCHANGED <<feedMap, entries, trees, writing, raced, crashed>>
    /\ UNCHANGED <<urlT, crawlT, fetchT, cfgT, viewT, srch>>

\* The one client's requests are served in the first slot.
PageSlots == {CHOOSE p \in Procs : \A q \in Procs : p <= q}

NextPage ==
    \E p \in PageSlots :
        \/ RequestPage(p) \/ GetRead(p) \/ ColdCrawl(p) \/ PutLock(p) \/ PutUnlock(p)
        \/ Lookup(p) \/ Fetch(p) \/ InsertEnd(p)

SpecPage == InitPage /\ [][NextPage]_vars

\* The sub-catalog list, asked for with and without an offset and a limit.
ListRequests ==
    {FollowLink(RootCat, MainHrefs.list),
     [href |-> SourcePrefix \o <<Slug, "/", "list", "?">> \o MainHrefs.pagedQuery,
      want |-> NoStr]}

RequestList(p) ==
    /\ ~crashed
    /\ req[p].pc \in {"idle", "done"}
    /\ RequestFrom(p, ListRequests)
    /\ UNCHANGED <<feedMap, entries, trees, writing, raced, crashed>>
    /\ UNCHANGED <<urlT, crawlT, fetchT, cfgT, viewT, srch>>

NextPersist ==
    \E p \in Procs :
        \/ RequestList(p) \/ GetRead(p) \/ ColdCrawl(p) \/ PutLock(p) \/ PutUnlock(p)
        \/ Lookup(p) \/ Fetch(p) \/ InsertEnd(p)

SpecPersist == InitPage /\ [][NextPersist]_vars

\* The entries of the second upstream page of the sub-catalog books.
BooksPageTwo ==
    EntryIDs(MainWorld[RootCat \o <<"/">> \o MainHrefs.books \o <<"/">> \o MainHrefs.page2])

\* The client started at the sub-catalog books, followed every next link it
\* was given and now holds a document without one.
FollowedToEnd(r) ==
    /\ r.pc = "done"
    /\ r.status = StatusOK
    /\ r.start = FollowLink(RootCat, MainHrefs.books).href
    /\ NextLink(r.body) = NoLink

\* C21: with a page limit of 1 on a sub-catalog of two upstream pages, a
\* client that starts at the served sub-catalog and follows the next links
\* until it is given none has received the entries of the second upstream
\* page, whatever the page size of the source.
C21_PagesBeyondLimitReachable ==
    \A p \in Procs :
        (FollowedToEnd(req[p]) /\ feedMap[req[p].slug].MaxPaginate = 1)
           => BooksPageTwo \subseteq (req[p].seen \cup EntryIDs(req[p].body))

\* The document of a tree node is one that fetchWithPaginationLimit returns
\* for the node's URL: every upstream page it could fetch, merged, every
\* entry of them.
Unsliced(node, feedCfg) ==
    \E fail \in {{}, CancelledAfter(node.URL)} :
        node.Feed = fetchWithPaginationLimit(MainWorld, fail, node.URL, feedCfg).Feed

\* The documents of a tree that is there stay in it as they are.
DocumentsKept(t, u) ==
    t # NoTree =>
        /\ u # NoTree
        /\ u.Feed = t.Feed
        /\ \A k \in DOMAIN t.Children :
              k \in DOMAIN u.Children /\ u.Children[k].Feed = t.Children[k].Feed

\* C26: every child of a tree holds the document as it was fetched, with
\* every entry; no step of a browse request, whatever its offset and limit,
\* changes the entries or links of a document that is in a tree.
C26_CachedDocumentsUntouched ==
    [][\A t \in Procs :
          /\ DocumentsKept(trees[t], trees'[t])
          /\ trees'[t] # NoTree =>
                \A k \in DOMAIN trees'[t].Children :
                   Unsliced(trees'[t].Children[k], feedMap[Slug])]_vars

\* With a page size of 2 the sub-catalog list is in the tree with its one
\* entry; a later request for it with limit 1 and offset 2 was served from
\* the tree, a page without entries and with a previous link.
C26_Witness ==
    \E p \in Procs :
        /\ feedMap[Slug].MaxEntries = 2
        /\ req[p].pc = "done" /\ req[p].status = StatusOK
        /\ req[p].n >= 2
        /\ req[p].rawQuery = MainHrefs.pagedQuery
        /\ req[p].key = NoStr
        /\ req[p].body.Entries = <<>>
        /\ FirstLink(req[p].body, RelPrevious) # NoLink
        /\ \E k \in DOMAIN trees[req[p].tree].Children :
              /\ trees[req[p].tree].Children[k].Feed = req[p].feed
              /\ Len(req[p].feed.Entries) = 1
              /\ FirstLink(req[p].feed, RelPrevious) = NoLink

\* The request r is for a sub-path and cleaned query whose child an earlier
\* request had fetched and inserted when r came in, and the tree r got from
\* the feed cache is the one the cache held at that insert: no Put has
\* replaced it since.
InsertedBefore(r) ==
    \E e \in r.expect :
        /\ e.subPath = ResolveKey(r.subPath, r.rawQuery).subPath
        /\ e.cleanQuery = ResolveKey(r.subPath, r.rawQuery).cleanQuery
        /\ e.cache = r.tree

\* C27: once a request has fetched and inserted the child of a sub-path and
\* cleaned query, no later request for them fetches from upstream, whatever
\* its offset and limit, as long as no Put has replaced the source's tree.
C27_OnDemandChildrenPersist ==
    \A p \in Procs : req[p].pc = "fetch" => ~InsertedBefore(req[p])


(***************************************************************************)
(* The crawl below a child (crawler.go, crawlChildren).                    *)
(***************************************************************************)
\* The URLs the sub-catalog links of a tree node point at.
LinkTargets(t) ==
    LET links == EntryLinks(t.Feed.Entries)
    IN  {crawlerResolveURL(t.URL, links[i].Href) :
            i \in {j \in 1..Len(links) : isNavigationLink(links[j])}}

\* The children at the given level below which the crawl may go, and what
\* is below them.
RECURSIVE Descended(_, _, _)
Descended(t, level, pollDepth) ==
    UNION {IF IsNavigationFeed(t.Children[k].Feed) /\ level < pollDepth
           THEN {t.Children[k]} \cup Descended(t.Children[k], level + 1, pollDepth)
           ELSE {} : k \in DOMAIN t.Children}

\* No node at the given level or below, other than a navigation document
\* above the depth limit, has children.
RECURSIVE OnlyNavigationDescended(_, _, _)
OnlyNavigationDescended(t, level, pollDepth) ==
    \A k \in DOMAIN t.Children :
        /\ DOMAIN t.Children[k].Children # {}
              => IsNavigationFeed(t.Children[k].Feed) /\ level < pollDepth
        /\ OnlyNavigationDescended(t.Children[k], level + 1, pollDepth)

\* C31: the crawl fetches the sub-catalog links of a fetched child only if
\* the child is a navigation document and its level is below the depth limit:
\* every URL requested after the root is a sub-catalog link of the root or of
\* such a child, and no other child has anything stored below it.
C31_DescendOnlyBelowNavigation ==
    (crawlT.phase = "done" /\ ~crawlT.out.Err)
        => /\ OnlyNavigationDescended(crawlT.out.Tree, 1, crawlT.cfg.PollDepth)
           /\ Requested(crawlT.out.Log) \subseteq
                  UNION {LinkTargets(t) :
                            t \in {crawlT.out.Tree}
                                   \cup Descended(crawlT.out.Tree, 1, crawlT.cfg.PollDepth)}

\* n2 offers a download and links the sub-catalog n4: n2 is fetched and kept,
\* n2/n4 is not requested although the depth limit would allow it.
C31_Witness ==
    /\ crawlT.phase = "done"
    /\ crawlT.world = "siblings"
    /\ crawlT.fail = {}
    /\ crawlT.cfg.PollDepth = 3
    /\ <<"n2">> \in DOMAIN crawlT.out.Tree.Children
    /\ ~IsNavigationFeed(crawlT.out.Tree.Children[<<"n2">>].Feed)
    /\ LinkTargets(crawlT.out.Tree.Children[<<"n2">>]) = {RootCat \o <<"/", "n2", "/", "n4">>}
    /\ RootCat \o <<"/", "n2", "/", "n4">> \notin Requested(crawlT.out.Log)
    /\ RootCat \o <<"/", "n1", "/", "n4">> \in Requested(crawlT.out.Log)


(***************************************************************************)
(* SpecLoop: FetchWithLimit on paginated feeds whose last page carries a   *)
(* next link back to a page of the chain, to itself when back = n.         *)
(***************************************************************************)
LoopWorld(style, n, back) ==
    [PageWorld(style, n) EXCEPT
        ![PageURL(style, n)].Links =
            <<[Rel |-> RelNext, Href |-> PageURL(style, back), Type |-> MediaTypeAtom]>>]

InitLoop ==
    /\ urlT = Idle
    /\ cfgT = Idle
    /\ viewT = Idle
    /\ crawlT = Idle
    /\ ServerInit({0})
    /\ \E style \in PageStyles, n \in 1..MaxChain, maxPages \in 0..MaxChain :
         \E back \in 1..n, fail \in SUBSET {PageURL(style, i) : i \in 1..n} :
            fetchT = [phase |-> "start", style |-> style, n |-> n, maxPages |-> maxPages,
                      back |-> back, fail |-> fail,
                      out |-> [Err |-> FALSE, Feed |-> NoFeed, HasMore |-> FALSE,
                               NextURL |-> <<>>, Fetched |-> <<>>, Diverged |-> FALSE]]

DoFetchLoop ==
    /\ fetchT.phase = "start"
    /\ fetchT' = [fetchT EXCEPT !.phase = "done",
                     !.out = FetchWithLimit(LoopWorld(fetchT.style, fetchT.n, fetchT.back),
                                            fetchT.fail, ListURL, fetchT.maxPages)]
    /\ UNCHANGED <<urlT, crawlT, cfgT, viewT>>
    /\ UNCHANGED serverVars

SpecLoop == InitLoop /\ [][DoFetchLoop]_vars

\* C37: on every finite page graph, one whose next links lead back to a page
\* already visited included, FetchWithLimit comes to an end, and with a page
\* limit k > 0 it makes at most k requests.  The pages of a chain are fewer
\* than MaxFollow, so a call that is cut off has requested a page twice
\* without a limit and goes on for ever.
C37_FetchWithLimitTerminates ==
    fetchT.phase = "done"
        => /\ ~fetchT.out.Diverged
           /\ fetchT.maxPages > 0 => Len(fetchT.out.Fetched) <= fetchT.maxPages

\* With a page limit the call ends within the limit, whatever the links.
LimitedFetchTerminates ==
    (fetchT.phase = "done" /\ fetchT.maxPages > 0)
        => ~fetchT.out.Diverged /\ Len(fetchT.out.Fetched) <= fetchT.maxPages

\* Without a limit the call is cut off exactly when a next link leads back:
\* the page requested last had been requested before.
UnlimitedFetchLoops ==
    (fetchT.phase = "done" /\ fetchT.out.Diverged)
        => /\ fetchT.maxPages = 0
           /\ \E i, j \in 1..Len(fetchT.out.Fetched) :
                 i < j /\ fetchT.out.Fetched[i] = fetchT.out.Fetched[j]


(***************************************************************************)
(* SpecPaginate: the server-side pagination of HandleSource on documents   *)
(* of up to MaxTotal entries, for every offset and limit a query can       *)
(* carry, the client following the next link or the last link of the page  *)
(* it received.                                                            *)
(***************************************************************************)
MaxTotal == 4

\* The page size of the source (max_entries).
PageSize == 2

BooksPath == SourcePrefix \o <<Slug, "/", "books">>

\* A document of n entries, with or without pagination links of its own.
UpstreamLinks ==
    {<<>>,
     <<[Rel |-> RelSelf, Href |-> <<"/", "cat", "/", "books">>, Type |-> MediaTypeAtom],
       [Rel |-> RelFirst, Href |-> <<"/", "cat", "/", "books">>, Type |-> MediaTypeAtom],
       [Rel |-> RelPrevious, Href |-> <<"?", "page", "=", "p1">>, Type |-> MediaTypeAtom],
       [Rel |-> RelNext, Href |-> <<"?", "page", "=", "p3">>, Type |-> MediaTypeAtom],
       [Rel |-> RelLast, Href |-> <<"?", "page", "=", "p4">>, Type |-> MediaTypeAtom]>>}

TotalFeed(n, links) ==
    [Links |-> links, Entries |-> [i \in 1..n |-> AcqEntry(i, <<"b.epub">>)]]

\* The queries of the first request: offset and limit as one digit each, or
\* left out (the value <<>>), before a parameter of the client's own.
PageQueries ==
    {(IF o = <<>> THEN <<>> ELSE <<"offset", "=">> \o o \o <<"&">>)
     \o (IF l = <<>> THEN <<>> ELSE <<"limit", "=">> \o l \o <<"&">>)
     \o <<"z", "=", "1">> :
        o \in {<<>>} \cup {<<Digits[i]>> : i \in 1..Len(Digits)},
        l \in {<<>>} \cup {<<Digits[i]>> : i \in 1..Len(Digits)}}

InitPaginate ==
    /\ crawlT = Idle
    /\ cfgT = Idle
    /\ viewT = Idle
    /\ fetchT = Idle
    /\ ServerInit({0})
    /\ \E n \in 1..MaxTotal, links \in UpstreamLinks, q \in PageQueries :
         urlT = [phase |-> "start", feed |-> TotalFeed(n, links), rawQuery |-> q,
                 first |-> parsePaginationParams(q, PageSize),
                 offset |-> 0, limit |-> 0, page |-> NoFeed, seen |-> <<>>]

\* One request: parsePaginationParams and paginateFeed, as HandleSource
\* calls them.  seen is history: the IDs of the entries served so far.
PageOf(rawQuery) ==
    LET pp   == parsePaginationParams(rawQuery, PageSize)
        page == paginateFeed(urlT.feed, BooksPath, rawQuery, pp.offset, pp.limit)
    IN  [urlT EXCEPT !.rawQuery = rawQuery, !.offset = pp.offset, !.limit = pp.limit,
                     !.page = page,
                     !.seen = IF page = SliceBoundsPanic THEN @
                              ELSE @ \o [i \in 1..Len(page.Entries) |-> page.Entries[i].ID]]

\* The query of a link the gateway wrote.
QueryOfHref(href) == SubSeq(href, Index(href, <<"?">>) + 1, Len(href))

PaginateFirst ==
    /\ urlT.phase = "start"
    /\ urlT' = [PageOf(urlT.rawQuery) EXCEPT !.phase = "paged"]
    /\ UNCHANGED <<crawlT, fetchT, cfgT, viewT>>
    /\ UNCHANGED serverVars

FollowNextLink ==
    /\ urlT.phase = "paged"
    /\ urlT.page # SliceBoundsPanic
    /\ NextLink(urlT.page) # NoLink
    /\ Len(urlT.seen) <= 2 * MaxTotal
    /\ urlT' = PageOf(QueryOfHref(NextLink(urlT.page).Href))
    /\ UNCHANGED <<crawlT, fetchT, cfgT, viewT>>
    /\ UNCHANGED serverVars

FollowLastLink ==
    /\ urlT.phase = "paged"
    /\ urlT.page # SliceBoundsPanic
    /\ urlT' = [PageOf(QueryOfHref(FirstLink(urlT.page, RelLast).Href)) EXCEPT !.phase = "last"]
    /\ UNCHANGED <<crawlT, fetchT, cfgT, viewT>>
    /\ UNCHANGED serverVars

NextPaginate == PaginateFirst \/ FollowNextLink \/ FollowLastLink

SpecPaginate == InitPaginate /\ [][NextPaginate]_vars

Min(a, b) == IF a < b THEN a ELSE b

\* C38: for a document of total >= 1 entries, offset >= 0 and limit >= 1,
\* paginateFeed returns the entries at the indices min(offset, total) up to,
\* not including, min(offset + limit, total), in order and without an access
\* out of range, and sets TotalResults = total, ItemsPerPage = limit and
\* StartIndex = min(offset, total) + 1.
C38_PageWindow ==
    LET total == Len(urlT.feed.Entries)
        start == Min(urlT.offset, total)
        end   == Min(urlT.offset + urlT.limit, total)
    IN  urlT.phase \in {"paged", "last"}
          => /\ urlT.offset >= 0 /\ urlT.limit >= 1
             /\ urlT.page # SliceBoundsPanic
             /\ urlT.page.Entries = SubSeq(urlT.feed.Entries, start + 1, end)
             /\ urlT.page.TotalResults = total
             /\ urlT.page.ItemsPerPage = urlT.limit
             /\ urlT.page.StartIndex = start + 1

\* The window is right whenever start + limit stays within the range of int.
PageWindowInRange ==
    LET total == Len(urlT.feed.Entries)
        start == Min(urlT.offset, total)
        end   == Min(urlT.offset + urlT.limit, total)
    IN  (urlT.phase \in {"paged", "last"} /\ start + urlT.limit <= MaxInt)
          => /\ urlT.page # SliceBoundsPanic
             /\ urlT.page.Entries = SubSeq(urlT.feed.Entries, start + 1, end)
             /\ urlT.page.TotalResults = total
             /\ urlT.page.ItemsPerPage = urlT.limit
             /\ urlT.page.StartIndex = start + 1


PaginationRels == {RelFirst, RelPrevious, RelNext, RelLast}

\* The links of a served page that carry the relation rel.
LinksOf(page, rel) == SelectSeq(page.Links, LAMBDA l : l.Rel = rel)

\* What C39 says of one served page.
LinksAsClaimed ==
    LET total == Len(urlT.feed.Entries)
        page  == urlT.page
    IN  /\ (NextLink(page) # NoLink) <=> (urlT.offset + urlT.limit < total)
        /\ (FirstLink(page, RelPrevious) # NoLink) <=> (urlT.offset > 0)
        /\ \A rel \in PaginationRels :
              /\ Len(LinksOf(page, rel)) <= 1
              /\ \A i \in 1..Len(LinksOf(page, rel)) :
                    HasPrefix(LinksOf(page, rel)[i].Href, BooksPath \o <<"?">>)
        /\ (urlT.phase = "paged" /\ urlT.first.offset = 0)
              => /\ urlT.limit = urlT.first.limit
                 /\ urlT.seen = [i \in 1..Min(urlT.offset + urlT.limit, total) |-> i]
                 /\ NextLink(page) = NoLink => urlT.seen = [i \in 1..total |-> i]
        /\ urlT.phase = "last" => page.Entries # <<>> /\ NextLink(page) = NoLink

\* C39: a served page has a next link exactly if offset + limit < total and
\* a previous link exactly if offset > 0; from offset 0 the next links lead
\* through every entry once, in order, to a page without next link; the page
\* of the last link is not empty and has no next link; first, previous, next
\* and last links of the upstream document are replaced by the gateway's.
C39_PaginationLinks ==
    (urlT.phase \in {"paged", "last"} /\ urlT.page # SliceBoundsPanic) => LinksAsClaimed

\* The links are as claimed whenever offset + limit stays within the range
\* of int.
PaginationLinksInRange ==
    (/\ urlT.phase \in {"paged", "last"}
     /\ urlT.page # SliceBoundsPanic
     /\ urlT.offset + urlT.limit <= MaxInt) => LinksAsClaimed


(***************************************************************************)
(* The keys of a tree's children and the URLs they stand for (crawler.go   *)
(* crawlChildren and relativePath, handlers.go resolveFeed).               *)
(***************************************************************************)
ExtKeyPrefix == <<"ext", "?", "url", "=">>

\* The upstream URL a request with the cache key K denotes: the decoded URL
\* of an ext key, else joinURL of the root with the key's path and query.
KeyURL(rootURL, K) ==
    LET i == Index(K, <<"?">>)
    IN  IF HasPrefix(K, ExtKeyPrefix) THEN QueryUnescape(TrimPrefix(K, ExtKeyPrefix))
        ELSE IF i = 0 THEN joinURL(rootURL, K, <<>>)
        ELSE joinURL(rootURL, SubSeq(K, 1, i - 1), SubSeq(K, i + 1, Len(K)))

\* Every child of the node and of the nodes below it was fetched from the
\* URL its key denotes, a trailing slash apart, and holds what that URL
\* serves.
RECURSIVE KeysDenoteURLs(_, _, _)
KeysDenoteURLs(w, rootURL, t) ==
    \A K \in DOMAIN t.Children :
        /\ TrimSuffix(t.Children[K].URL, <<"/">>) = TrimSuffix(KeyURL(rootURL, K), <<"/">>)
        /\ t.Children[K].URL \in DOMAIN w
        /\ t.Children[K].Feed = w[t.Children[K].URL]
        /\ KeysDenoteURLs(w, rootURL, t.Children[K])

\* C35: every child stored under a key K that is no ext key holds the
\* document fetched from joinURL(rootURL, K), and every child under
\* ext?url=E the document fetched from the decoded E, so that a cache hit
\* serves the document of the upstream URL the request denotes.
C35_KeysDenoteUpstreamURLs ==
    (crawlT.phase = "done" /\ ~crawlT.out.Err)
        => KeysDenoteURLs(CrawlWorld(crawlT.world), crawlT.cfg.URL, crawlT.out.Tree)

\* The keys denote the URLs on the upstreams whose sub-catalogs all lie on
\* the root's host.
KeysDenoteURLsOnOneHost ==
    (crawlT.phase = "done" /\ ~crawlT.out.Err /\ crawlT.world # "diamond")
        => KeysDenoteURLs(CrawlWorld(crawlT.world), crawlT.cfg.URL, crawlT.out.Tree)


(***************************************************************************)
(* SpecAuth: the upstream requests of one Crawl, one browse request or one *)
(* download of a source, for every setting of the source's auth.  A        *)
(* request is its URL and the Basic credentials it carries, <<>> for none. *)
(***************************************************************************)
\* FeedConfig.Auth: nil, without a user name, with user name and password.
AuthConfigs ==
    {[Set |-> FALSE, Username |-> <<>>, Password |-> <<>>],
     [Set |-> TRUE, Username |-> <<>>, Password |-> <<"pw">>],
     [Set |-> TRUE, Username |-> <<"user">>, Password |-> <<"pw">>]}

\* The request fetchFeed and FetchRaw build.
NewRequest(feedURL, auth) ==
    [URL |-> feedURL,
     BasicAuth |-> IF auth.Set /\ auth.Username # <<>>
                   THEN <<auth.Username, auth.Password>> ELSE <<>>]

\* The requests of a call that fetched the URLs of log, all with the auth it
\* was given.
RequestsOfLog(log, auth) == [i \in 1..Len(log) |-> NewRequest(log[i], auth)]

\* A download link of a file on another host, as the rewriter emits it.
OtherHostDownload == DownloadHref(<<>>, Slug, <<"https://", "other.org", "/", "x">>)

AuthCfg(depth, auth) ==
    [URL |-> RootCat, PollDepth |-> depth, MaxEntries |-> 0, MaxPaginate |-> 0, Auth |-> auth]

InitAuth ==
    /\ urlT = Idle
    /\ cfgT = Idle
    /\ viewT = Idle
    /\ crawlT = Idle
    /\ ServerInit({0})
    /\ \E auth \in AuthConfigs :
          \/ \E name \in CrawlWorlds, depth \in 0..MaxDepth :
                fetchT = [phase |-> "start", kind |-> "crawl", world |-> name, href |-> NoStr,
                          cfg |-> AuthCfg(depth, auth), sent |-> <<>>]
          \/ \E c \in ClientRequests :
                fetchT = [phase |-> "start", kind |-> "browse", world |-> "", href |-> c.href,
                          cfg |-> AuthCfg(0, auth), sent |-> <<>>]
          \/ \E href \in DownloadRequests \cup {OtherHostDownload} :
                fetchT = [phase |-> "start", kind |-> "download", world |-> "", href |-> href,
                          cfg |-> AuthCfg(0, auth), sent |-> <<>>]

\* Crawl: every fetch is given feedCfg.Auth.
AuthCrawl ==
    /\ fetchT.phase = "start"
    /\ fetchT.kind = "crawl"
    /\ fetchT' = [fetchT EXCEPT !.phase = "done",
                     !.sent = RequestsOfLog(Crawl(CrawlWorld(fetchT.world), {}, fetchT.cfg).Log,
                                            fetchT.cfg.Auth)]
    /\ UNCHANGED <<urlT, crawlT, cfgT, viewT>>
    /\ UNCHANGED serverVars

\* HandleSource with the root document cached: resolveFeed fetches what the
\* tree does not hold, handing feedCfg on to fetchWithPaginationLimit.
AuthBrowseSent(route, t, feedCfg) ==
    LET res == ResolveCached(t, ResolveKey(route.subPath, route.rawQuery))
    IN  IF ~route.ok \/ route.slug \notin DOMAIN feedMap \/ res.found THEN <<>>
        ELSE RequestsOfLog(fetchWithPaginationLimit(MainWorld, {}, res.fetchURL,
                                                    feedCfg).Fetched,
                           feedCfg.Auth)

AuthBrowse ==
    /\ fetchT.phase = "start"
    /\ fetchT.kind = "browse"
    /\ fetchT' = [fetchT EXCEPT !.phase = "done",
                     !.sent = AuthBrowseSent(RouteSource(fetchT.href),
                                             Leaf(MainWorld[RootCat], RootCat), fetchT.cfg)]
    /\ UNCHANGED <<urlT, crawlT, cfgT, viewT>>
    /\ UNCHANGED serverVars

\* HandleDownload: FetchRaw of the url parameter with feedCfg.Auth, once the
\* slug and the URL have passed.
AuthDownloadSent(slug, dlURL, feedCfg) ==
    IF \/ slug \notin DOMAIN feedMap
       \/ dlURL = <<>> \/ ParseErr(dlURL) \/ Parse(dlURL).Scheme \notin SchemeAtoms
    THEN <<>>
    ELSE <<NewRequest(dlURL, feedCfg.Auth)>>

AuthDownload ==
    /\ fetchT.phase = "start"
    /\ fetchT.kind = "download"
    /\ fetchT' = [fetchT EXCEPT !.phase = "done",
                     !.sent = AuthDownloadSent(SlugAfter(Parse(fetchT.href).Path, DownloadPrefix),
                                               URLQueryGet(fetchT.href, "url"), fetchT.cfg)]
    /\ UNCHANGED <<urlT, crawlT, cfgT, viewT>>
    /\ UNCHANGED serverVars

NextAuth == AuthCrawl \/ AuthBrowse \/ AuthDownload

SpecAuth == InitAuth /\ [][NextAuth]_vars

\* C36: the Basic credentials of a source go only with upstream requests to
\* the host of the source's root URL; requests to another host, through an
\* ext path or the download proxy, carry none.
C36_CredentialsStayOnSourceHost ==
    fetchT.phase = "done"
        => \A i \in 1..Len(fetchT.sent) :
              fetchT.sent[i].BasicAuth # <<>>
                  => Parse(fetchT.sent[i].URL).Host = Parse(fetchT.cfg.URL).Host

\* Credentials go out only when the source has a user name, and then with
\* every request of the call.
CredentialsOnEveryRequest ==
    fetchT.phase = "done"
        => \A i \in 1..Len(fetchT.sent) :
              (fetchT.sent[i].BasicAuth # <<>>)
                  <=> (fetchT.cfg.Auth.Set /\ fetchT.cfg.Auth.Username # <<>>)


(***************************************************************************)
(* The merge of Search (search/search.go).                                 *)
(***************************************************************************)
\* The sources whose search task has appended its entries.
Merged(p) == {slug \in DOMAIN srch[p].tasks : srch[p].tasks[slug].pc = "done"}

\* The ways to put the sources of a set in a row.
Orders(S) ==
    {o \in [1..Cardinality(S) -> S] : \A i, j \in 1..Cardinality(S) : i # j => o[i] # o[j]}

\* The entries upstream returns for each source of the row, tagged, block
\* after block.
RECURSIVE Blocks(_, _)
Blocks(order, query) ==
    IF order = <<>> THEN <<>>
    ELSE TagEntries(UpstreamFound(Head(order), query), Head(order))
         \o Blocks(Tail(order), query)

\* Search has a source to ask: a cached tree with a search URL.
Searchable(slug) == entries[slug] \in Procs /\ trees[entries[slug]].SearchURL # <<>>

\* C32: however the search tasks of the sources interleave, the merged
\* document holds exactly the entries of the sources whose search succeeded,
\* the entries of each source as one block in upstream order; a source
\* without cached tree or without search URL gets no task and no fetch.
C32_MergeCompleteNotInterleaved ==
    \A p \in Procs :
        (req[p].href \in SearchRequests /\ srch[p].query # <<>>) =>
            /\ \E o \in Orders(Merged(p)) : srch[p].results = Blocks(o, srch[p].query)
            /\ \A slug \in DOMAIN srch[p].tasks :
                  ~Searchable(slug) => srch[p].tasks[slug].pc = "none"
            /\ req[p].pc = "done" =>
                  /\ req[p].body.Entries = srch[p].results
                  /\ \A slug \in DOMAIN srch[p].tasks :
                        Searchable(slug) => srch[p].tasks[slug].pc \in {"done", "failed"}

\* The searches of lib and lib2 both succeeded, lib2 appended first: the
\* document holds the two entries of lib2 and then those of lib, while lib3
\* and lib4 were not asked.
C32_Witness ==
    \E p \in Procs :
        /\ req[p].pc = "done"
        /\ req[p].status = StatusOK
        /\ req[p].href \in SearchRequests
        /\ Merged(p) = {Slug, "lib2"}
        /\ Len(UpstreamFound(Slug, srch[p].query)) >= 1
        /\ Len(UpstreamFound("lib2", srch[p].query)) >= 2
        /\ req[p].body.Entries = Blocks(<<"lib2", Slug>>, srch[p].query)
        /\ srch[p].tasks["lib3"].pc = "none"


(***************************************************************************)
(* SpecSearchLive: one call of Search and its tasks, with the scheduler    *)
(* running every goroutine that can take a step and every upstream fetch   *)
(* returning.                                                              *)
(***************************************************************************)
\* The goroutine that serves the search request.
Searching == 1

NextSearchLive ==
    \/ SearchStart(Searching) \/ SearchGet(Searching) \/ TaskTemplate(Searching)
    \/ TaskResult(Searching) \/ TaskLock(Searching) \/ TaskAppend(Searching)
    \/ SearchDone(Searching)

SpecSearchLive ==
    /\ InitSearch
    /\ [][NextSearchLive]_vars
    /\ WF_vars(SearchGet(Searching)) /\ WF_vars(TaskTemplate(Searching))
    /\ WF_vars(TaskResult(Searching)) /\ WF_vars(TaskLock(Searching))
    /\ WF_vars(TaskAppend(Searching)) /\ WF_vars(SearchDone(Searching))

\* A search task that is still running.
Running(task) == task.pc \notin {"none", "failed", "done"}

\* C33: Search returns only when every task it started has finished, and
\* from then on the merged document does not change; when every upstream
\* fetch returns, Search returns.
C33_SearchJoinBarrier ==
    /\ [](\A p \in Procs :
            (req[p].pc = "done" /\ req[p].href \in SearchRequests)
                => \A slug \in DOMAIN srch[p].tasks : ~Running(srch[p].tasks[slug]))
    /\ [][\A p \in Procs :
            (req[p].pc = "done" /\ req[p].href \in SearchRequests)
                => srch'[p].results = srch[p].results /\ req'[p].body = req[p].body]_vars
    /\ \A p \in Procs : (req[p].pc = "search") ~> (req[p].pc = "done")

\* Search has returned after both its tasks, the one of lib2 having failed
\* at its result fetch: the document holds the block of lib.
C33_Witness ==
    /\ req[Searching].pc = "done"
    /\ req[Searching].status = StatusOK
    /\ srch[Searching].tasks[Slug].pc = "done"
    /\ srch[Searching].tasks["lib2"].pc = "failed"
    /\ srch[Searching].tasks["lib2"].url # trees[entries["lib2"]].SearchURL
    /\ Len(req[Searching].body.Entries) >= 1
    /\ req[Searching].body.Entries = Blocks(<<Slug>>, srch[Searching].query)


(***************************************************************************)
(* SpecSources: the gateway with the two sources lib and lib2.  One        *)
(* goroutine serves browse requests for lib, the other browse requests for *)
(* lib2 and requests for the root catalog /opds, up to MaxRequests in all. *)
(***************************************************************************)
SourceA == Slug

SourceB == "lib2"

RootHref == <<"/", "opds">>

\* The browse requests for a source: its root and one sub-catalog that the
\* tree does not hold, for lib2 one on an ext path.
SourceRequests(slug) ==
    IF slug = SourceA
    THEN {[href |-> SourcePrefix \o <<SourceA, "/">>, want |-> NoStr],
          FollowLink(RootCat, MainHrefs.list)}
    ELSE {[href |-> SourcePrefix \o <<SourceB, "/">>, want |-> NoStr],
          [href |-> SourcePrefix \o <<SourceB, "/", "ext", "?", "url", "=">>
                    \o QueryEscape(MainHrefs.otherHost),
           want |-> MainHrefs.otherHost]}

\* The source a goroutine serves browse requests for.
SourceOf(p) == IF p = Searching THEN SourceA ELSE SourceB

InitSources ==
    /\ urlT = Idle
    /\ cfgT = Idle
    /\ viewT = Idle
    /\ crawlT = Idle
    /\ fetchT = Idle
    /\ feedMap = [slug \in {SourceA, SourceB} |-> SourceCfg(slug)]
    /\ entries = [slug \in {SourceA, SourceB} |-> NoEntry]
    /\ mu = [writer |-> 0, readers |-> {}]
    /\ trees = [p \in Procs |-> NoTree]
    /\ writing = [p \in Procs |-> {}]
    /\ req = [p \in Procs |-> IdleReq]
    /\ raced = FALSE
    /\ crashed = FALSE
    /\ srch = [p \in Procs |-> IdleSearch]

\* HandleSource up to FeedCache.Get, in a slot that is free.
RequestSource(p) ==
    /\ ~crashed
    /\ req[p].pc \in {"idle", "done"}
    /\ RequestsOf(Procs) < MaxRequests
    /\ \E c \in SourceRequests(SourceOf(p)) :
          RoutedWith(p, [IdleReq EXCEPT !.n = req[p].n + 1], c, RouteSource(c.href))
    /\ UNCHANGED <<feedMap, entries, trees, writing, raced, crashed, srch>>
    /\ UNCHANGED <<urlT, crawlT, fetchT, cfgT, viewT>>

\* HandleRoot up to its loop over cfg.Feeds.
RootStart(p) ==
    /\ ~crashed
    /\ SourceOf(p) = SourceB
    /\ req[p].pc \in {"idle", "done"}
    /\ RequestsOf(Procs) < MaxRequests
    /\ req' = [req EXCEPT ![p] = [IdleReq EXCEPT !.pc = "root", !.href = RootHref,
                                                 !.n = req[p].n + 1]]
    /\ srch' = [srch EXCEPT ![p] = IdleSearch]
    /\ UNCHANGED <<feedMap, entries, mu, trees, writing, raced, crashed>>
    /\ UNCHANGED <<urlT, crawlT, fetchT, cfgT, viewT>>

\* The entry of HandleRoot for a source; Updated tells whether the time is
\* the one of the cached tree or the one of the request.
RootEntry(slug, cached) ==
    [ID |-> <<"urn:opds-aggregator:source:", slug>>,
     Updated |-> IF cached THEN "UpdatedAt" ELSE "now",
     Links |-> <<[Rel |-> RelSubsection, Href |-> SourcePrefix \o <<slug, "/">>,
                  Type |-> MediaTypeAtom]>>]

\* HandleRoot, one turn of the loop: feedCache.Get (RLock, read, RUnlock)
\* and the append of the entry.
RootGot(p, slug, e) ==
    /\ crashed' = (e = Torn)
    /\ srch' = [srch EXCEPT ![p].i = @ + 1,
                            ![p].results = Append(@, RootEntry(slug, e \in Procs))]

RootGet(p) ==
    /\ ~crashed
    /\ req[p].pc = "root"
    /\ srch[p].i <= Len(CfgFeeds(feedMap))
    /\ CanRLock(mu)
    /\ RootGot(p, CfgFeeds(feedMap)[srch[p].i], entries[CfgFeeds(feedMap)[srch[p].i]])
    /\ UNCHANGED <<feedMap, entries, mu, trees, writing, req, raced>>
    /\ UNCHANGED <<urlT, crawlT, fetchT, cfgT, viewT>>

\* The document of HandleRoot.
RootFeed(found) ==
    [Links   |-> <<[Rel |-> RelSelf, Href |-> RootHref, Type |-> MediaTypeAtom],
                   [Rel |-> RelStart, Href |-> RootHref, Type |-> MediaTypeAtom],
                   [Rel |-> RelSearch,
                    Href |-> <<"/", "opds", "/", "search", "?", "q", "=", "{searchTerms}">>,
                    Type |-> MediaTypeAtom]>>,
     Entries |-> found]

\* HandleRoot: writeOPDS.
RootDone(p) ==
    /\ ~crashed
    /\ req[p].pc = "root"
    /\ srch[p].i > Len(CfgFeeds(feedMap))
    /\ req' = [req EXCEPT ![p].pc = "done", ![p].status = StatusOK,
                          ![p].body = RootFeed(srch[p].results)]
    /\ UNCHANGED <<feedMap, entries, mu, trees, writing, raced, crashed, srch>>
    /\ UNCHANGED <<urlT, crawlT, fetchT, cfgT, viewT>>

NextSources ==
    \E p \in Procs :
        \/ RequestSource(p) \/ GetRead(p) \/ ColdCrawl(p) \/ PutLock(p) \/ PutUnlock(p)
        \/ Lookup(p) \/ Fetch(p) \/ InsertEnd(p)
        \/ RootStart(p) \/ RootGet(p) \/ RootDone(p)

SpecSources == InitSources /\ [][NextSources]_vars

\* The step leaves what the feed cache holds for the source alone.
CacheKept(slug) ==
    /\ entries'[slug] = entries[slug]
    /\ entries[slug] \in Procs => trees'[entries[slug]] = trees[entries[slug]]

\* C34: no step of a request for one source, a failing crawl or on-demand
\* fetch included, changes the tree cached for another source; a browse
\* request fails only when a fetch of its own fails, whatever has happened
\* to the other source; and the root catalog lists one entry per configured
\* source, in the order of the configuration, whatever the cache holds.
C34_FailureIsolation ==
    /\ [][\A p \in Procs : \A slug \in DOMAIN feedMap :
            (req'[p] # req[p] /\ req'[p].slug # slug) => CacheKept(slug)]_vars
    /\ [](\A p \in Procs :
            (req[p].pc = "done" /\ req[p].slug \in DOMAIN feedMap /\ ~req[p].failed)
                => /\ req[p].status = StatusOK
                   /\ req[p].feed = fetchWithPaginationLimit(MainWorld, {}, req[p].feedURL,
                                                             feedMap[req[p].slug]).Feed)
    /\ [](\A p \in Procs :
            (req[p].pc = "done" /\ req[p].href = RootHref)
                => /\ req[p].status = StatusOK
                   /\ Len(req[p].body.Entries) = Len(CfgFeeds(feedMap))
                   /\ \A i \in 1..Len(CfgFeeds(feedMap)) :
                         req[p].body.Entries[i].Links[1].Href
                             = SourcePrefix \o <<CfgFeeds(feedMap)[i], "/">>)

\* The cold-start crawl of lib has failed and nothing is cached for lib; the
\* other goroutine has served lib2 from the tree it crawled and then the
\* root catalog, which lists both sources.
C34_Witness ==
    /\ req[Searching].slug = SourceA
    /\ req[Searching].failed
    /\ req[Searching].status = StatusBadGateway
    /\ entries[SourceA] = NoEntry
    /\ entries[SourceB] \in Procs
    /\ trees[entries[SourceB]].Feed = MainWorld[RootLib2]
    /\ \E q \in Procs :
          /\ req[q].pc = "done"
          /\ req[q].href = RootHref
          /\ Len(req[q].body.Entries) = 2
          /\ req[q].body.Entries[1].Updated = "now"
          /\ req[q].body.Entries[2].Updated = "UpdatedAt"

====
